---- MODULE Spec2Model ----
(***************************************************************************)
(* Model of the mesh-toolkit task transport, submission service, status    *)
(* polling, manifest persistence and pipeline orchestration.               *)
(*                                                                         *)
(* Time is counted in quarter seconds (one tick = 0.25 s).  Statements of  *)
(* the program take no time; time passes only while a caller is blocked in *)
(* time.sleep (rate limiting, tenacity's backoff) or while a request is   *)
(* in flight; the time a caller lets pass between two calls is counted    *)
(* into the latency of the request before.                                 *)
(***************************************************************************)
EXTENDS Integers, Sequences, FiniteSets, TLC

\* ------------------------------------------------------------------ bounds
MaxTime == 20          \* the clock stops advancing here
MaxCalls == 2          \* client operations started by one caller
MaxLatency == 2        \* ticks a request may stay in flight
MaxLog == 3            \* the most recent requests kept in the log
MaxServiceCalls == 2   \* calls of Text3DService in one run
MaxRevisions == 3      \* updates written to one manifest
DocChunks == 2         \* write() calls one manifest document takes
MaxStages == 2         \* stages one pipeline asks for
MaxRuns == 2           \* generate and resume calls in one run
MaxBatch == 3          \* specs handed to one batch_generate
MaxApply == 2          \* animate.apply calls in a run
MaxDownloads == 2      \* download_file calls in a run
MaxContent == 2        \* bytes in a downloaded file
MaxSeq == 2            \* elements of a sequence inside a payload
MaxIdCalls == 2        \* asset identifiers derived from one spec
MaxCtorCalls == 2      \* MeshyClient(...) calls in a run
MaxWire == 2           \* requests logged in a run

\* ------------------------------------------------- constants of client.py
MinRequestInterval == 2   \* self.min_request_interval = 0.5 s
StopAfterAttempt == 3     \* stop_after_attempt(3)
WaitMultiplier == 4       \* wait_exponential(multiplier=1 s)
WaitMin == 8              \* wait_exponential(min=2 s)
WaitMax == 40             \* wait_exponential(max=10 s)
MaxRetriesDefault == 3    \* __init__(..., max_retries: int = 3)

Threads == {1, 2}

\* The operations of MeshyClient that send an API request.
RequestOps ==
    { "create_text_to_3d", "get_text_to_3d",
      "create_text_to_texture", "get_text_to_texture",
      "create_image_to_3d", "get_image_to_3d" }
DirectCreateOps == { "create_rigging", "create_animation", "create_retexture" }
DirectGetOps == { "get_rigging", "get_animation", "get_retexture" }
ClientOps == RequestOps \cup DirectCreateOps \cup DirectGetOps

\* TRUE when the operation sends through MeshyClient._request.
UsesRequest(o) == o \in RequestOps

\* TRUE when the operation translates a 429 itself (the direct create_* calls).
Checks429(o) == o \in DirectCreateOps

\* ---------------------------------------------------------------- responses
\* The value of response.headers.get("retry-after"): "none" stands for None.
RetryAfterHeaders == { "none", "", "0.25", "3", "soon" }
\* The headers the environment of the model answers with.
SentHeaders == { "none", "3", "soon" }

\* float(retry_after): the headers it parses, and the parsed value in ticks.
ParsesAsFloat(h) == h \in { "0.25", "3" }
FloatTicks(h) == CASE h = "0.25" -> 1 [] h = "3" -> 12 [] OTHER -> 0

\* `if retry_after:` is false for None and for the empty string.
Truthy(h) == h \notin { "none", "" }

StatusCodes == { 200, 404, 429, 500 }
\* code 0 stands for no response: the HTTP client raised httpx.TimeoutException.
Responses ==
    { [code |-> c, retry_after |-> "none"] : c \in (StatusCodes \cup {0}) \ {429} }
    \cup { [code |-> 429, retry_after |-> h] : h \in SentHeaders }

NoResponse == [code |-> -1, retry_after |-> "none"]

\* response.raise_for_status(): an HTTPStatusError for every response that
\* is not a 2xx.
\* Variant: the check of older httpx releases, for 4xx and 5xx alone.
RaisesForClientServer(r) == r.code >= 400
RaisesForStatus(r) == r.code >= 100 /\ (r.code < 200 \/ r.code >= 300)

\* Lines 76-92 of _request: what one attempt raises ("" when it returns).
\* Variant: float(retry_after) outside a try block.
AttemptRaisesUnparsed(r) ==
    IF r.code = 0 THEN "TimeoutException"
    ELSE IF r.code = 429
         THEN IF Truthy(r.retry_after) /\ ~ParsesAsFloat(r.retry_after)
              THEN "ValueError" ELSE "RateLimitError"
    ELSE IF RaisesForStatus(r) THEN "HTTPStatusError"
    ELSE ""
AttemptRaises(r) ==
    IF r.code = 0 THEN "TimeoutException"
    ELSE IF r.code = 429 THEN "RateLimitError"
    ELSE IF RaisesForStatus(r) THEN "HTTPStatusError"
    ELSE ""

\* Lines 80-89: the retry-after header only chooses the error's message.
RateLimitMessage(r) ==
    IF Truthy(r.retry_after) /\ ParsesAsFloat(r.retry_after)
    THEN "Rate limit exceeded, retry after"
    ELSE "Rate limit exceeded"

Message(e, r) == IF e = "RateLimitError" THEN RateLimitMessage(r) ELSE ""

\* Lines 141-147 and 154-155: the direct v1 calls.
DirectRaises(o, r) ==
    IF r.code = 0 THEN "TimeoutException"
    ELSE IF r.code = 429 /\ Checks429(o) THEN "RateLimitError"
    ELSE IF RaisesForStatus(r) THEN "HTTPStatusError"
    ELSE ""

\* retry_if_exception_type((HTTPStatusError, TimeoutException, RateLimitError))
\* Variant: the retry predicate without httpx.TimeoutException.
RetryableNoTimeout(e) == e \in { "HTTPStatusError", "RateLimitError" }
Retryable(e) == e \in { "HTTPStatusError", "TimeoutException", "RateLimitError" }

RECURSIVE Pow2(_)
Pow2(n) == IF n <= 0 THEN 1 ELSE 2 * Pow2(n - 1)
Max(a, b) == IF a >= b THEN a ELSE b
Min(a, b) == IF a <= b THEN a ELSE b

\* tenacity.wait_exponential(multiplier=1, min=2, max=10) after attempt n:
\* max(max(0, min), min(multiplier * 2 ** (n - 1), max)).
\* Variant: the backoff without its min= floor.
WaitExponentialNoFloor(n) == Min(WaitMultiplier * Pow2(n - 1), WaitMax)
WaitExponential(n) ==
    Max(Max(0, WaitMin), Min(WaitMultiplier * Pow2(n - 1), WaitMax))

\* ------------------------------------------------------------------- state
VARIABLES
    now,                \* time.time(), in ticks
    last_request_time,  \* MeshyClient.last_request_time
    callers,            \* the threads that use the client in this run
    pc,                 \* where each caller is
    op,                 \* the client operation a caller is in
    attempt,            \* tenacity's attempt_number of the running _request
    wake,               \* when the caller's time.sleep ends
    hist,               \* the attempts of the running call: send time, response, wait
    calls,              \* operations a caller has started
    result,             \* what the last call gave its caller
    cause,              \* the last attempt's exception inside a RetryError
    sent,               \* the last MaxLog client.request calls, in order
    \* Text3DService and the TaskRepository behind it
    svc_pc,             \* where the running service call is
    svc_call,           \* its arguments, payload and the task id it was given
    svc_result,         \* what the last service call gave its caller
    svc_calls,          \* service calls started so far
    posts,              \* every POST the service sent, in order
    remote_tasks,       \* number of tasks the remote API has created
    repository,         \* the task submissions the repository holds, in order
    \* the manifest store
    files,              \* the file system: path -> [exists, data]
    writer,             \* the update in progress: pc, asset key, document
    durable,            \* per asset key, the manifest last committed
    loaded,             \* what the last load returned, and around which update
    \* poll_until_complete / animate.poll
    poll_pc,            \* "idle", or "get" while the loop is about to ask
    poll_call,          \* the arguments of the running poll
    poll_start,         \* start_time
    poll_seen,          \* the statuses the running poll was given, in order
    poll_result,        \* what the last poll gave its caller
    \* the pipeline orchestrator and the manifests it persists
    manifests,          \* per asset key, the persisted manifest
    run,                \* the running generate / resume call
    run_result,         \* what the last generate / resume gave its caller
    runs,               \* generate / resume calls started so far
    submissions,        \* every stage submission the remote API accepted
    batch,              \* the running batch_generate call
    \* animate.apply
    apply_pc,           \* where the running apply call is
    apply_call,         \* its arguments, the POSTs it sent, the task id it got
    apply_result,       \* what the last apply gave its caller
    apply_calls,        \* apply calls started so far
    anim_tasks,         \* number of animation tasks the remote API has created
    \* MeshyClient.download_file
    dl_pc,              \* where the running download_file call is
    dl_call,            \* its requests so far, the response, what it raised
    dl_result,          \* what the last download_file gave its caller
    dl_calls,           \* download_file calls started so far
    dl_file,            \* the file at output_path
    dl_dir,             \* TRUE when the directory of output_path exists
    \* the spec canonicalizer
    fp_in,              \* the payload at hand
    fp_hash,            \* its fingerprint, once computed
    fp_op,              \* what was last done to the payload
    \* the asset identifier of a spec
    aid_spec,           \* the GameAssetSpec at hand
    aid_out,            \* the identifiers derived from it so far, in order
    \* MeshyClient(...), from the constructor on
    ctor_call,          \* the arguments and environment of the last constructor call
    ctor_result,        \* what it gave: "client", "ValueError", "none" before
    ctor_calls,         \* constructor calls so far
    client_obj,         \* the client object, if there is one
    http_clients,       \* httpx clients created so far
    wire,               \* the requests sent by client objects, in order
    max_retries         \* MeshyClient.max_retries

transportVars == << now, last_request_time, callers, pc, op, attempt, wake, hist,
                    calls, result, cause, sent >>
serviceVars == << svc_pc, svc_call, svc_result, svc_calls, posts, remote_tasks,
                  repository >>
storeVars == << files, writer, durable, loaded >>
pollVars == << poll_pc, poll_call, poll_start, poll_seen, poll_result >>
pipelineVars == << manifests, run, run_result, runs, submissions, batch >>
applyVars == << apply_pc, apply_call, apply_result, apply_calls, anim_tasks >>
downloadVars == << dl_pc, dl_call, dl_result, dl_calls, dl_file, dl_dir >>
hashVars == << fp_in, fp_hash, fp_op >>
assetIdVars == << aid_spec, aid_out >>
ctorVars == << ctor_call, ctor_result, ctor_calls, client_obj, http_clients, wire >>
configVars == << max_retries >>
moreVars == << applyVars, downloadVars, hashVars, assetIdVars, ctorVars, configVars >>
vars == << transportVars, serviceVars, storeVars, pollVars, pipelineVars, moreVars >>

\* What the actions of one component leave alone.
notTransport == << serviceVars, storeVars, pollVars, pipelineVars, moreVars >>
notService == << transportVars, storeVars, pollVars, pipelineVars, moreVars >>
notStore == << transportVars, serviceVars, pollVars, pipelineVars, moreVars >>
notPipeline == << transportVars, serviceVars, storeVars, pollVars, moreVars >>
\* A poll reads and passes time on the clock of the transport.
notPoll == << last_request_time, callers, pc, op, attempt, wake, hist, calls,
             result, cause, sent, serviceVars, storeVars, pipelineVars, moreVars >>
\* animate.apply runs animate.poll, on the same clock.
notApply == << last_request_time, callers, pc, op, attempt, wake, hist, calls,
              result, cause, sent, serviceVars, storeVars, pipelineVars,
              downloadVars, hashVars, assetIdVars, ctorVars,
              configVars >>
notDownload == << transportVars, serviceVars, storeVars, pollVars, pipelineVars,
                 applyVars, hashVars, assetIdVars, ctorVars,
              configVars >>
notHash == << transportVars, serviceVars, storeVars, pollVars, pipelineVars,
             applyVars, downloadVars, assetIdVars, ctorVars,
              configVars >>
notAssetId == << transportVars, serviceVars, storeVars, pollVars, pipelineVars,
                applyVars, downloadVars, hashVars, ctorVars,
              configVars >>
notCtor == << transportVars, serviceVars, storeVars, pollVars, pipelineVars,
             applyVars, downloadVars, hashVars, assetIdVars,
              configVars >>

\* stop_after_attempt(3), line 68 of the decorator; self.max_retries is
\* assigned at line 45 and read nowhere.
\* Variant: a stop condition that reads the constructor's max_retries.
StopAfterMaxRetries(n) == n >= max_retries
Stop(n) == n >= StopAfterAttempt

Outcomes == { "none", "response", "RetryError", "RateLimitError",
              "HTTPStatusError", "TimeoutException" }

TypeOK ==
    /\ now \in 0..MaxTime
    /\ last_request_time \in 0..MaxTime
    /\ callers \subseteq Threads
    /\ pc \in [Threads -> { "idle", "rate_limit", "rl_sleep", "rl_stamp", "send",
                            "inflight", "backoff", "direct", "direct_inflight" }]
    /\ op \in [Threads -> ClientOps]
    /\ attempt \in [Threads -> 0..StopAfterAttempt]
    /\ calls \in [Threads -> 0..MaxCalls]
    /\ result \in [Threads -> Outcomes]

\* ------------------------------------------------ Text3DService: its data
Projects == { "otter", "beaver" }
Prompts == { "A red apple" }
Seeds == { "none", "7" }          \* seed: int | None, "none" for None
CallbackUrl == "https://example.com/webhook"

TaskStatuses == { "PENDING", "IN_PROGRESS", "SUCCEEDED", "FAILED", "EXPIRED" }
TerminalStatuses == { "SUCCEEDED", "FAILED", "EXPIRED" }

JsonBool(b) == IF b THEN "true" ELSE "false"

\* submit_task, lines 45-61: the payload, each value written as its JSON text.
OptionalField(present, k, v) == IF present THEN k :> v ELSE << >>
SubmitPayload(prompt, enable_retexture, seed) ==
    [ mode |-> "preview",
      prompt |-> prompt,
      art_style |-> "sculpture",
      model_version |-> "latest",
      negative_prompt |-> "",
      enable_pbr |-> JsonBool(TRUE),
      ai_model |-> "meshy-4",
      topology |-> "quad",
      callback_url |-> CallbackUrl ]
    @@ OptionalField(enable_retexture, "should_remesh", JsonBool(TRUE))
    @@ OptionalField(seed # "none", "seed", seed)

\* refine_task, line 112. Task ids are written as numbers, 0 for the empty id.
RefinePayload(task_id) ==
    [ parent_task_id |-> task_id, callback_url |-> CallbackUrl ]

\* TaskRepository.compute_spec_hash: the digest of the canonical JSON of the
\* payload (keys sorted, no whitespace). The canonical text is given by the
\* set of its key/value members; the digest is taken as injective.
ComputeSpecHash(payload) == { << k, payload[k] >> : k \in DOMAIN payload }

\* TaskSubmission (schemas.py, lines 20-30) as the service fills it in, lines
\* 74-81 and 115-122. The service passes the label as project.
\* Variant: a submission recorded as already running.
TaskSubmissionStarted(task_id, spec_hash, project, service) ==
    [ task_id |-> task_id,
      spec_hash |-> spec_hash,
      project |-> project,
      service |-> service,
      status |-> "IN_PROGRESS",
      callback_url |-> CallbackUrl ]
TaskSubmission(task_id, spec_hash, project, service) ==
    [ task_id |-> task_id,
      spec_hash |-> spec_hash,
      project |-> project,
      service |-> service,
      status |-> "PENDING",
      callback_url |-> CallbackUrl ]

NoCall == [ kind |-> "none" ]
NoSubmission == [ kind |-> "none" ]

\* ------------------------------------------------ manifest store: its data
AssetKeys == { "barrel-001", "otter-001" }

\* A manifest document: the asset it belongs to and how often it was updated.
Manifest(key, revision) == [ asset_id |-> key, revision |-> revision ]
NotFound == [ asset_id |-> "NotFound", revision |-> 0 ]
Corrupt == [ asset_id |-> "Corrupt", revision |-> 0 ]

\* The JSON text of a manifest, as the DocChunks pieces it is written in.
Serialize(m) == [ i \in 1..DocChunks |-> [ doc |-> m, part |-> i ] ]

\* json.load of a file's content: the manifest whose whole text it is.
Parse(data) ==
    IF Len(data) = DocChunks /\ data = Serialize(data[1].doc)
    THEN data[1].doc
    ELSE Corrupt

ManifestPath(key) == << key, "_manifest.json" >>
\* Variant: the update is written into the manifest file itself.
TempPathInPlace(key) == << key, "_manifest.json" >>
\* The file an update is written to before it replaces the manifest.
TempPath(key) == << key, "_manifest.json.tmp" >>
Paths == { ManifestPath(k) : k \in AssetKeys } \cup { TempPath(k) : k \in AssetKeys }

NoFile == [ exists |-> FALSE, data |-> << >> ]
NoUpdate == [ pc |-> "idle", key |-> "", doc |-> NotFound ]

\* ------------------------------------------------ status polling: its data
\* poll_until_complete, lines 221-228: the task types that have a get method.
\* Variant: a table that serves every task type it is asked for.
PollTaskTypesAny == { "text-to-3d", "text-to-texture", "image-to-3d", "rigging",
                      "animation", "retexture", "text-to-4d" }
PollTaskTypes == { "text-to-3d", "text-to-texture", "image-to-3d", "rigging",
                   "animation", "retexture" }
\* The task types callers pass: one served through _request, one served by a
\* direct request, and one that is not known.
TaskTypeArgs == { "text-to-3d", "rigging", "text-to-4d" }
\* poll_interval / interval and max_wait / timeout, in ticks.
PollIntervals == { 1, 2 }
MaxWaits == { 0, 2, 4 }
PollCalls ==
    [ via : { "poll_until_complete" }, task_type : TaskTypeArgs,
      interval : PollIntervals, max_wait : MaxWaits ]
    \cup [ via : { "animate.poll" }, task_type : { "animation" },
           interval : PollIntervals, max_wait : MaxWaits ]
NoPoll == [ via |-> "none", task_type |-> "", interval |-> 0, max_wait |-> 0 ]
NoPollResult == [ kind |-> "none", status |-> "" ]

\* What one pass of the loop does with the status it was given
\* (client.py lines 237-247, animate.py lines 44-51).
\* Variant: a loop without the EXPIRED branch.
PollDecisionNoExpired(st) ==
    CASE st = "SUCCEEDED" -> "return"
      [] st = "FAILED" -> "RuntimeError"
      [] OTHER -> "continue"
PollDecision(st) ==
    CASE st = "SUCCEEDED" -> "return"
      [] st = "FAILED" -> "RuntimeError"
      [] st = "EXPIRED" -> "RuntimeError"
      [] OTHER -> "continue"

\* client.py line 250, animate.py line 52: the deadline test.
\* Variant: a loop that never gives up.
DeadlineNever(elapsed, max_wait) == FALSE
Deadline(elapsed, max_wait) == elapsed > max_wait

\* ------------------------------------------- pipeline orchestrator: its data
\* The stages of a pipeline, in order; a stage is named by its place here.
Stages == << "text3d", "rigging", "animation", "retexture" >>
FailedStatuses == { "FAILED", "EXPIRED" }
GenerationErrors == { "InvalidSpec", "SubmissionFailed", "PollTimeout",
                      "RemoteTaskFailed", "DownloadFailed" }
\* The errors that end a generation for good; a poll timeout does not.
TerminalErrors == { "SubmissionFailed", "RemoteTaskFailed", "DownloadFailed" }

\* schemas.py: the records a manifest is made of.  An entry starts PENDING.
\* Variant: an entry that starts IN_PROGRESS.
TaskGraphEntryStarted(task_id, stage) ==
    [ task_id |-> task_id, stage |-> stage, service |-> Stages[stage],
      status |-> "IN_PROGRESS", error |-> "" ]
TaskGraphEntry(task_id, stage) ==
    [ task_id |-> task_id, stage |-> stage, service |-> Stages[stage],
      status |-> "PENDING", error |-> "" ]
StatusHistoryEntry(old_status, new_status, source, task_id) ==
    [ old_status |-> old_status, new_status |-> new_status, source |-> source,
      task_id |-> task_id ]
ArtifactRecord(key, stage, task_id) ==
    [ relative_path |-> << key, Stages[stage] >>, task_id |-> task_id ]
AssetManifest(key, stages) ==
    [ exists |-> TRUE, asset_id |-> key, stages |-> stages, task_graph |-> << >>,
      artifacts |-> << >>, history |-> << >> ]
NoManifest ==
    [ exists |-> FALSE, asset_id |-> "", stages |-> 0, task_graph |-> << >>,
      artifacts |-> << >>, history |-> << >> ]

\* createOrLoad: the stored manifest, or a new one when there is none.
\* Variant: a store that starts a new manifest on every call.
CreateAlways(m, key, stages) == AssetManifest(key, stages)
CreateOrLoad(m, key, stages) == IF m.exists THEN m ELSE AssetManifest(key, stages)

\* appendHistory.
\* Variant: a history that keeps its latest entry only.
ReplaceHistory(m, h) == [m EXCEPT !.history = << h >>]
AppendHistory(m, h) == [m EXCEPT !.history = Append(@, h)]

\* recordTaskSubmission: the new entry and its first transition.
RecordTaskSubmission(m, task_id, stage) ==
    AppendHistory([m EXCEPT !.task_graph = Append(@, TaskGraphEntry(task_id, stage))],
                  StatusHistoryEntry("NOT_STARTED",
                                     TaskGraphEntry(task_id, stage).status,
                                     "orchestrator", task_id))

\* update: entry i takes the polled status; a changed status is one more
\* history entry, a failed one keeps its cause.
UpdateStatus(m, i, st) ==
    IF m.task_graph[i].status = st THEN m
    ELSE AppendHistory(
            [m EXCEPT !.task_graph[i].status = st,
                      !.task_graph[i].error =
                          IF st \in FailedStatuses THEN "remote " \o st ELSE ""],
            StatusHistoryEntry(m.task_graph[i].status, st, "orchestrator",
                               m.task_graph[i].task_id))

\* recordArtifact.
\* Variant: a download that is recorded twice.
RecordArtifactTwice(m, stage, task_id) ==
    [m EXCEPT !.artifacts = Append(Append(@, ArtifactRecord(m.asset_id, stage, task_id)),
                                   ArtifactRecord(m.asset_id, stage, task_id))]
RecordArtifact(m, stage, task_id) ==
    [m EXCEPT !.artifacts = Append(@, ArtifactRecord(m.asset_id, stage, task_id))]

\* A terminal error that is no status of the remote task is written into the
\* history before it is raised.
\* Variant: an orchestrator that raises without recording.
RecordNothing(m, old_status, task_id) == m
RecordFailure(m, old_status, task_id) ==
    AppendHistory(m, StatusHistoryEntry(old_status, "FAILED", "orchestrator", task_id))

\* A poll timeout leaves the stored manifest as it is.
\* Variant: a timeout that marks the polled task FAILED.
OnPollTimeoutFail(m, i) == UpdateStatus(m, i, "FAILED")
OnPollTimeout(m, i) == m

\* The index of the last entry whose status is not terminal, 0 without one.
LastOpen(g) ==
    LET open == { i \in DOMAIN g : g[i].status \notin TerminalStatuses }
    IN IF open = { } THEN 0 ELSE CHOOSE i \in open : \A j \in open : j <= i

\* What a fresh orchestrator does next, read off the persisted manifest: poll
\* the last entry that is not terminal, or submit the stage after the last one
\* when all succeeded; a failed pipeline stays aborted.
\* Variant: a resume that starts the pipeline over.
ResumeFromStart(m) == [ do |-> "submit", stage |-> 1, entry |-> 0 ]
\* Variant: a resume that steps over a failed stage.
ResumeOverFailure(m) ==
    LET g == m.task_graph IN
    IF g = << >> THEN [ do |-> "submit", stage |-> 1, entry |-> 0 ]
    ELSE IF LastOpen(g) # 0
    THEN [ do |-> "poll", stage |-> g[LastOpen(g)].stage, entry |-> LastOpen(g) ]
    ELSE IF g[Len(g)].stage < m.stages
    THEN [ do |-> "submit", stage |-> g[Len(g)].stage + 1, entry |-> 0 ]
    ELSE [ do |-> "done", stage |-> g[Len(g)].stage, entry |-> Len(g) ]
ResumePoint(m) ==
    LET g == m.task_graph IN
    IF g = << >> THEN [ do |-> "submit", stage |-> 1, entry |-> 0 ]
    ELSE IF LastOpen(g) # 0
    THEN [ do |-> "poll", stage |-> g[LastOpen(g)].stage, entry |-> LastOpen(g) ]
    ELSE IF g[Len(g)].status \in FailedStatuses
    THEN [ do |-> "failed", stage |-> g[Len(g)].stage, entry |-> Len(g) ]
    ELSE IF g[Len(g)].stage < m.stages
    THEN [ do |-> "submit", stage |-> g[Len(g)].stage + 1, entry |-> 0 ]
    ELSE [ do |-> "done", stage |-> g[Len(g)].stage, entry |-> Len(g) ]

\* generate: as a resume, but a stage without a non-failed entry is submitted.
GeneratePlan(m) ==
    IF ResumePoint(m).do = "failed"
    THEN [ do |-> "submit", stage |-> ResumePoint(m).stage, entry |-> 0 ]
    ELSE ResumePoint(m)

\* A store mutation writes the whole updated manifest and returns it.
\* Variant: a store that returns the updated manifest without writing it.
PersistNothing(stored, m) == stored
Persist(stored, m) == m

\* The running call, with the manifest the orchestrator holds for it: what
\* the store returned last.
NoRun == [ pc |-> "idle", key |-> "", wait |-> FALSE, resumed |-> FALSE,
           stage |-> 0, entry |-> 0, task_id |-> 0, polled |-> FALSE,
           error |-> "", manifest |-> NoManifest ]
NoRunResult == [ kind |-> "none", key |-> "", task_id |-> 0,
                 manifest |-> NoManifest ]

\* The asset whose pipeline is run, killed and resumed call by call.
PipelineKeys == { "otter-001" }

\* batch_generate: the input specs and what became of each.
BatchSpecs == [ key : AssetKeys, valid : BOOLEAN ]
NoBatch == [ pc |-> "idle", size |-> 0, specs |-> << >>, next |-> 0,
             outcomes |-> << >>, returned |-> << >> ]

\* batch_generate's handler: a manifest is collected, an error drops the item,
\* and the loop goes on to the next spec either way.
\* Variant: a loop that lets the first error out.
OnItemDoneRaise(b, r) ==
    [b EXCEPT !.outcomes = Append(@, r.kind),
              !.returned = IF r.kind = "manifest" THEN Append(@, r.key) ELSE @,
              !.next = @ + 1,
              !.pc = IF r.kind = "manifest" THEN "next" ELSE "raised"]
OnItemDone(b, r) ==
    [b EXCEPT !.outcomes = Append(@, r.kind),
              !.returned = IF r.kind = "manifest" THEN Append(@, r.key) ELSE @,
              !.next = @ + 1,
              !.pc = "next"]

\* __init__ (lines 38-51). The clock of a running system is far beyond
\* min_request_interval, so the first request never sleeps.
StartClient(cs) ==
    /\ now = MinRequestInterval
    /\ last_request_time = 0
    /\ callers = cs
    /\ pc = [t \in Threads |-> "idle"]
    /\ op = [t \in Threads |-> "get_text_to_3d"]
    /\ attempt = [t \in Threads |-> 0]
    /\ wake = [t \in Threads |-> 0]
    /\ hist = [t \in Threads |-> << >>]
    /\ calls = [t \in Threads |-> 0]
    /\ result = [t \in Threads |-> "none"]
    /\ cause = [t \in Threads |-> ""]
    /\ sent = << >>

\* Text3DService.__init__ (lines 13-15) over an empty repository.
StartService ==
    /\ svc_pc = "idle"
    /\ svc_call = NoCall
    /\ svc_result = NoSubmission
    /\ svc_calls = 0
    /\ posts = << >>
    /\ remote_tasks = 0
    /\ repository = << >>

\* A manifest store over an empty output directory.
StartStore ==
    /\ files = [ p \in Paths |-> NoFile ]
    /\ writer = NoUpdate
    /\ durable = [ k \in AssetKeys |-> NotFound ]
    /\ loaded = [ key |-> "", value |-> NotFound, prior |-> NotFound, new |-> NotFound ]

\* No poll has been called yet.
StartPoll ==
    /\ poll_pc = "idle"
    /\ poll_call = NoPoll
    /\ poll_start = 0
    /\ poll_seen = << >>
    /\ poll_result = NoPollResult

\* An orchestrator over an empty output directory.
StartPipeline ==
    /\ manifests = [ k \in AssetKeys |-> NoManifest ]
    /\ run = NoRun
    /\ run_result = NoRunResult
    /\ runs = 0
    /\ submissions = << >>
    /\ batch = NoBatch

\* One caller uses the client.
\* ------------------------------------------------- animate.apply: its data
\* animation_id: an index into the animation catalogue.
AnimationIds == { 0, 1 }
RiggedTaskId == "rig-task-1"

\* apply, lines 77-82: the request, with the defaults of loop and frame_rate.
AnimationRequest(rigged_task_id, animation_id) ==
    [ rig_task_id |-> rigged_task_id, action_id |-> animation_id,
      loop |-> TRUE, frame_rate |-> 30 ]

\* What base.request gives create for its POST: a response whose "result" is
\* the id of the task the remote API created, a response without one (create
\* returns None, written 0), or an error.
CreateOutcomes == { "created", "no_result", "error" }

\* apply, lines 86-89: after create, return the id or poll.
\* Variant: an apply that polls whatever wait says.
AfterCreateAlwaysPoll(wait) == "poll"
AfterCreate(wait) == IF wait THEN "poll" ELSE "return"

\* poll's defaults, interval=5.0 and timeout=600.0, brought down to the clock
\* of the model: the shortest interval and a timeout of two intervals.
DefaultPoll == [ via |-> "animate.poll", task_type |-> "animation",
                interval |-> 1, max_wait |-> 2 ]

NoApply == [ wait |-> FALSE, request |-> << >>, posts |-> 0, task_id |-> 0 ]
NoApplyResult == [ kind |-> "none", task_id |-> 0, status |-> "" ]

\* No apply has been called yet.
StartApply ==
    /\ apply_pc = "idle"
    /\ apply_call = NoApply
    /\ apply_result = NoApplyResult
    /\ apply_calls = 0
    /\ anim_tasks = 0

\* ------------------------------------------------- download_file: its data
\* response.content: the byte strings of up to MaxContent bytes.
Bytes == { 0, 255 }
Contents == UNION { [1..n -> Bytes] : n \in 0..MaxContent }
Prefix(content, n) == [ i \in 1..n |-> content[i] ]

\* What the file system does with lines 260-263: makedirs or open fails and
\* the file is as it was, the write stops short, or all of it is written.
WriteOutcomes == { "makedirs_error", "write_error", "written" }

\* download_file has no retry decorator and no handler: no error is retried.
\* Variant: a download under the retry policy of _request.
DownloadRetriesAsRequest(e) == Retryable(e)
DownloadRetries(e) == FALSE

\* Line 265, len(response.content).
ContentLength(content) == Len(content)

NoDownload == [ requests |-> 0, code |-> 0, content |-> << >>, raised |-> "" ]
NoDownloadResult == [ kind |-> "none", size |-> 0 ]
NoDiskFile == [ exists |-> FALSE, data |-> << >> ]

\* No download_file has been called yet, and no file is at output_path.
StartDownload ==
    /\ dl_pc = "idle"
    /\ dl_call = NoDownload
    /\ dl_result = NoDownloadResult
    /\ dl_calls = 0
    /\ dl_file = NoDiskFile
    /\ dl_dir = FALSE

\* ------------------------------------------- the spec canonicalizer: its data
\* JSON values: a string, a sequence of values, or a mapping, which a caller
\* hands over with its keys in some order.
Str(s) == [ t |-> "str", s |-> s, items |-> << >> ]
Arr(items) == [ t |-> "arr", s |-> "", items |-> items ]
Obj(members) == [ t |-> "obj", s |-> "", items |-> members ]
Member(k, v) == [ k |-> k, v |-> v ]

PayloadKeys == { "a", "b" }
\* The lexicographic order of the keys.
KeyRank == [ k \in PayloadKeys |-> IF k = "a" THEN 1 ELSE 2 ]
Scalars == { Str("x"), Str("y") }

\* The mappings over PayloadKeys with values in vs, in every key order.
ObjectsOver(vs) ==
    { Obj(<< >>) }
    \cup { Obj(<< Member(k, v) >>) : k \in PayloadKeys, v \in vs }
    \cup { Obj(<< Member(ks[1], v1), Member(ks[2], v2) >>) :
             ks \in { kk \in PayloadKeys \X PayloadKeys : kk[1] # kk[2] },
             v1 \in vs, v2 \in vs }
Arrays == { Arr(items) : items \in UNION { [1..n -> Scalars] : n \in 0..MaxSeq } }
\* What a key of the payload may hold: a string or a sequence of strings
\* under "a", a string or a mapping of strings under "b".
ValuesAt(k) ==
    IF k = "a" THEN Scalars \cup Arrays ELSE Scalars \cup ObjectsOver(Scalars)
\* The payloads, in every key order.  No value is None: the callers leave
\* such fields out.
Payloads ==
    { Obj(<< >>) }
    \cup UNION { { Obj(<< Member(k, v) >>) : v \in ValuesAt(k) } : k \in PayloadKeys }
    \cup UNION { { Obj(<< Member(ks[1], v1), Member(ks[2], v2) >>) :
                     v1 \in ValuesAt(ks[1]), v2 \in ValuesAt(ks[2]) } :
                 ks \in { kk \in PayloadKeys \X PayloadKeys : kk[1] # kk[2] } }

\* Members in the order of their keys.
\* Variant: a canonical form that keeps the order it was given.
KeepOrder(members) == members
RECURSIVE SortByKey(_)
SortByKey(members) ==
    IF members = << >> THEN << >>
    ELSE LET i == CHOOSE i \in DOMAIN members :
                    \A j \in DOMAIN members :
                        KeyRank[members[i].k] <= KeyRank[members[j].k]
         IN << members[i] >>
            \o SortByKey(SubSeq(members, 1, i - 1)
                         \o SubSeq(members, i + 1, Len(members)))

Quoted(s) == "'" \o s \o "'"

\* canonicalize_spec: the JSON text of the payload with the keys of every
\* mapping sorted and no whitespace, as the sequence of its tokens.
RECURSIVE CanonicalizeSpec(_)
RECURSIVE CanonicalItems(_, _)
CanonicalItems(items, is_obj) ==
    IF items = << >> THEN << >>
    ELSE (IF is_obj
          THEN << Quoted(items[1].k), ":" >> \o CanonicalizeSpec(items[1].v)
          ELSE CanonicalizeSpec(items[1]))
         \o (IF Len(items) > 1 THEN << "," >> ELSE << >>)
         \o CanonicalItems(Tail(items), is_obj)
CanonicalizeSpec(v) ==
    CASE v.t = "str" -> << Quoted(v.s) >>
      [] v.t = "arr" -> << "[" >> \o CanonicalItems(v.items, FALSE) \o << "]" >>
      [] v.t = "obj" -> << "{" >> \o CanonicalItems(SortByKey(v.items), TRUE)
                               \o << "}" >>

\* compute_spec_hash: the digest of the canonical text; no two texts of the
\* model share a digest.
SpecFingerprint(v) == << "sha256" >> \o CanonicalizeSpec(v)
NoHash == << >>

\* A payload is at hand, not hashed yet.
StartHash(p) ==
    /\ fp_in = p
    /\ fp_hash = NoHash
    /\ fp_op = "none"

\* ------------------------------------------- the asset identifier: its data
\* GameAssetSpec: intent, description, the explicit asset_id and the slug of
\* the metadata; "" stands for an identifier or slug that is not there.
Intents == { "player_character", "npc_character", "prop_decoration" }
Descriptions == { "Test character", "Test NPC", "A unique barrel" }
ExplicitIds == { "", "custom-id-123", "npc-vendor" }
Slugs == { "", "npc-vendor", "custom-id-123" }
GameAssetSpecs ==
    [ intent : Intents, description : Descriptions, asset_id : ExplicitIds,
      slug : Slugs ]

\* The digest of the description, cut to its bounded length; no two
\* descriptions of the model share one.
DescriptionHash(description) == "h:" \o description

\* The derivation policy, an identifier given by its parts.
\* Variant: a policy that looks at the slug first.
AssetIdSlugFirst(spec) ==
    IF spec.slug # "" THEN << spec.slug >>
    ELSE IF spec.asset_id # "" THEN << spec.asset_id >>
    ELSE << spec.intent, "_", DescriptionHash(spec.description) >>
GenerateAssetId(spec) ==
    IF spec.asset_id # "" THEN << spec.asset_id >>
    ELSE IF spec.slug # "" THEN << spec.slug >>
    ELSE << spec.intent, "_", DescriptionHash(spec.description) >>

\* A spec is at hand, no identifier derived yet.
StartAssetId(spec) ==
    /\ aid_spec = spec
    /\ aid_out = << >>

\* ------------------------------------------- the constructor: its data
\* The api_key argument ("none" for None) and the value of MESHY_API_KEY in
\* the environment ("unset" when os.getenv gives None).
ApiKeyArgs == { "none", "", "msy-arg" }
EnvValues == { "unset", "", "msy-env" }

\* Python's truth of a str | None.
Falsy(v) == v \in { "none", "unset", "" }

\* Line 39, api_key or os.getenv("MESHY_API_KEY").
\* Variant: a constructor that does not look at the environment.
KeyOfArgument(api_key, env) == api_key
KeyOf(api_key, env) == IF Falsy(api_key) THEN env ELSE api_key

\* Line 54, the Authorization header of _headers().
Bearer(api_key) == "Bearer " \o api_key

NoCtorCall == [ api_key |-> "none", env |-> "unset" ]
NoClient == [ exists |-> FALSE, api_key |-> "" ]

\* No client has been constructed.
StartCtor ==
    /\ ctor_call = NoCtorCall
    /\ ctor_result = "none"
    /\ ctor_calls = 0
    /\ client_obj = NoClient
    /\ http_clients = 0
    /\ wire = << >>

\* The max_retries argument of the constructor, line 38.
MaxRetriesArgs == { 0, 1, 3, 5 }

\* __init__, line 45.
StartConfig(n) == max_retries = n

StartMore ==
    /\ StartCtor /\ StartConfig(MaxRetriesDefault)
    /\ StartApply /\ StartDownload /\ StartHash(Obj(<< >>))
    /\ StartAssetId([ intent |-> "prop_decoration", description |-> "A unique barrel",
                      asset_id |-> "", slug |-> "" ])

Init ==
    /\ StartClient({1}) /\ StartService /\ StartStore /\ StartPoll /\ StartPipeline
    /\ StartMore

\* Any payload may be the one at hand.
InitHash ==
    /\ StartClient({1}) /\ StartService /\ StartStore /\ StartPoll /\ StartPipeline
    /\ StartApply /\ StartDownload /\ StartCtor /\ StartConfig(MaxRetriesDefault)
    /\ \E p \in Payloads : StartHash(p)
    /\ StartAssetId([ intent |-> "prop_decoration", description |-> "A unique barrel",
                      asset_id |-> "", slug |-> "" ])

\* Any spec may be the one at hand.
InitAssetId ==
    /\ StartClient({1}) /\ StartService /\ StartStore /\ StartPoll /\ StartPipeline
    /\ StartApply /\ StartDownload /\ StartHash(Obj(<< >>)) /\ StartCtor
    /\ StartConfig(MaxRetriesDefault)
    /\ \E spec \in GameAssetSpecs : StartAssetId(spec)

\* The client was constructed with any max_retries.
InitRetries ==
    /\ StartClient({1}) /\ StartService /\ StartStore /\ StartPoll /\ StartPipeline
    /\ StartCtor /\ StartApply /\ StartDownload /\ StartHash(Obj(<< >>))
    /\ StartAssetId([ intent |-> "prop_decoration", description |-> "A unique barrel",
                      asset_id |-> "", slug |-> "" ])
    /\ \E n \in MaxRetriesArgs : StartConfig(n)

\* Two callers share the client, each on a thread of its own.
InitConcurrent ==
    /\ StartClient(Threads) /\ StartService /\ StartStore /\ StartPoll
    /\ StartPipeline /\ StartMore

\* A caller starts one client operation (lines 96-200).
Call(t, o) ==
    /\ t \in callers
    /\ pc[t] = "idle"
    /\ calls[t] < MaxCalls
    /\ calls' = [calls EXCEPT ![t] = @ + 1]
    /\ op' = [op EXCEPT ![t] = o]
    /\ attempt' = [attempt EXCEPT ![t] = IF UsesRequest(o) THEN 1 ELSE 0]
    /\ hist' = [hist EXCEPT ![t] = << >>]
    /\ result' = [result EXCEPT ![t] = "none"]
    /\ cause' = [cause EXCEPT ![t] = ""]
    /\ pc' = [pc EXCEPT ![t] = IF UsesRequest(o) THEN "rate_limit" ELSE "direct"]
    /\ UNCHANGED notTransport
    /\ UNCHANGED << now, last_request_time, callers, wake, sent >>

\* _rate_limit, lines 58-61: read the clock and the shared timestamp, sleep
\* the remainder of the interval.
\* Variant: a limiter that never sleeps.
SleepForNothing(since) == 0
SleepFor(since) ==
    IF since < MinRequestInterval THEN MinRequestInterval - since ELSE 0

RateLimit(t) ==
    /\ pc[t] = "rate_limit"
    /\ LET time_since_last == now - last_request_time
       IN  IF SleepFor(time_since_last) > 0
           THEN /\ pc' = [pc EXCEPT ![t] = "rl_sleep"]
                /\ wake' = [wake EXCEPT ![t] = now + SleepFor(time_since_last)]
           ELSE /\ pc' = [pc EXCEPT ![t] = "rl_stamp"]
                /\ UNCHANGED wake
    /\ UNCHANGED notTransport
    /\ UNCHANGED << now, last_request_time, callers, op, attempt, hist, calls,
                    result, cause, sent >>

\* time.sleep of line 61 returns.
RateLimitWake(t) ==
    /\ pc[t] = "rl_sleep"
    /\ now >= wake[t]
    /\ pc' = [pc EXCEPT ![t] = "rl_stamp"]
    /\ UNCHANGED notTransport
    /\ UNCHANGED << now, last_request_time, callers, op, attempt, wake, hist,
                    calls, result, cause, sent >>

\* _rate_limit, line 62: the clock is read again after the wait.
\* Variant: a limiter that stamps the time the request was due.
StampDue(clock, last) == last + MinRequestInterval
Stamp(clock, last) == clock

RateLimitStamp(t) ==
    /\ pc[t] = "rl_stamp"
    /\ last_request_time' = Stamp(now, last_request_time)
    /\ pc' = [pc EXCEPT ![t] = "send"]
    /\ UNCHANGED notTransport
    /\ UNCHANGED << now, callers, op, attempt, wake, hist, calls, result, cause,
                    sent >>

\* The log of requests keeps the MaxLog most recent ones.
Logged(log, e) ==
    LET all == Append(log, e)
    IN  IF Len(all) > MaxLog THEN Tail(all) ELSE all

\* _request, lines 75-76: the request goes out.
SendRequest(t) ==
    /\ pc[t] = "send"
    /\ sent' = Logged(sent, [by |-> t, at |-> now, via |-> "_request"])
    /\ hist' = [hist EXCEPT ![t] =
                  Append(@, [at |-> now, resp |-> NoResponse, raised |-> "",
                             msg |-> "", wait |-> 0])]
    /\ pc' = [pc EXCEPT ![t] = "inflight"]
    /\ UNCHANGED notTransport
    /\ UNCHANGED << now, last_request_time, callers, op, attempt, wake, calls,
                    result, cause >>

\* _request, lines 78-92, and the decision of tenacity's @retry (lines 64-70)
\* on what the attempt raised.
Receive(t, r) ==
    /\ pc[t] = "inflight"
    /\ LET e == AttemptRaises(r)
           n == Len(hist[t])
           retry == e # "" /\ Retryable(e) /\ ~Stop(attempt[t])
           w == IF retry THEN WaitExponential(attempt[t]) ELSE 0
       IN  /\ hist' = [hist EXCEPT ![t][n] =
                         [at |-> @.at, resp |-> r, raised |-> e,
                          msg |-> Message(e, r), wait |-> w]]
           /\ IF retry
              THEN /\ pc' = [pc EXCEPT ![t] = "backoff"]
                   /\ wake' = [wake EXCEPT ![t] = now + w]
                   /\ attempt' = [attempt EXCEPT ![t] = @ + 1]
                   /\ UNCHANGED << result, cause >>
              ELSE /\ pc' = [pc EXCEPT ![t] = "idle"]
                   /\ result' = [result EXCEPT ![t] =
                         IF e = "" THEN "response"
                         ELSE IF Retryable(e) THEN "RetryError" ELSE e]
                   /\ cause' = [cause EXCEPT ![t] = e]
                   /\ UNCHANGED << wake, attempt >>
    /\ UNCHANGED notTransport
    /\ UNCHANGED << now, last_request_time, callers, op, calls, sent >>

\* tenacity's sleep between two attempts returns; the next attempt runs
\* _request from its first line.
\* Variant: a retry that sends again without _rate_limit.
BackoffWakeUnlimited(t) ==
    /\ pc[t] = "backoff"
    /\ now >= wake[t]
    /\ pc' = [pc EXCEPT ![t] = "send"]
    /\ UNCHANGED notTransport
    /\ UNCHANGED << now, last_request_time, callers, op, attempt, wake, hist,
                    calls, result, cause, sent >>
BackoffWake(t) ==
    /\ pc[t] = "backoff"
    /\ now >= wake[t]
    /\ pc' = [pc EXCEPT ![t] = "rate_limit"]
    /\ UNCHANGED notTransport
    /\ UNCHANGED << now, last_request_time, callers, op, attempt, wake, hist,
                    calls, result, cause, sent >>

\* The v1 operations call self.client.request themselves (lines 140-143,
\* 153-154, 162-165, 175-176, 184-187, 197-198).
DirectSend(t) ==
    /\ pc[t] = "direct"
    /\ sent' = Logged(sent, [by |-> t, at |-> now, via |-> "direct"])
    /\ hist' = [hist EXCEPT ![t] =
                  Append(@, [at |-> now, resp |-> NoResponse, raised |-> "",
                             msg |-> "", wait |-> 0])]
    /\ pc' = [pc EXCEPT ![t] = "direct_inflight"]
    /\ UNCHANGED notTransport
    /\ UNCHANGED << now, last_request_time, callers, op, attempt, wake, calls,
                    result, cause >>

\* Lines 144-149, 155-156 and their copies: no retry around them.
DirectReceive(t, r) ==
    /\ pc[t] = "direct_inflight"
    /\ LET e == DirectRaises(op[t], r)
           n == Len(hist[t])
       IN  /\ hist' = [hist EXCEPT ![t][n] =
                         [at |-> @.at, resp |-> r, raised |-> e,
                          msg |-> IF e = "RateLimitError" THEN "Rate limit exceeded"
                                  ELSE "",
                          wait |-> 0]]
           /\ result' = [result EXCEPT ![t] = IF e = "" THEN "response" ELSE e]
           /\ cause' = [cause EXCEPT ![t] = e]
    /\ pc' = [pc EXCEPT ![t] = "idle"]
    /\ UNCHANGED notTransport
    /\ UNCHANGED << now, last_request_time, callers, op, attempt, wake, calls, sent >>

\* Time passes while some caller is blocked: no caller is between two
\* statements, no sleep is overdue and no request has been in flight for
\* MaxLatency.
InFlight(t) == pc[t] \in { "inflight", "direct_inflight" }
Sleeping(t) == pc[t] \in { "rl_sleep", "backoff" }
Tick ==
    /\ now < MaxTime
    /\ \E t \in Threads : Sleeping(t) \/ InFlight(t)
    /\ \A t \in Threads :
          \/ pc[t] = "idle"
          \/ (Sleeping(t) /\ now < wake[t])
          \/ (InFlight(t) /\ now - hist[t][Len(hist[t])].at < MaxLatency)
    /\ now' = now + 1
    /\ UNCHANGED notTransport
    /\ UNCHANGED << last_request_time, callers, pc, op, attempt, wake, hist,
                    calls, result, cause, sent >>

Next ==
    \/ \E t \in callers, o \in ClientOps : Call(t, o)
    \/ \E t \in callers : RateLimit(t)
    \/ \E t \in callers : RateLimitWake(t)
    \/ \E t \in callers : RateLimitStamp(t)
    \/ \E t \in callers : SendRequest(t)
    \/ \E t \in callers, r \in Responses : Receive(t, r)
    \/ \E t \in callers : BackoffWake(t)
    \/ \E t \in callers : DirectSend(t)
    \/ \E t \in callers, r \in Responses : DirectReceive(t, r)
    \/ Tick

Spec == Init /\ [][Next]_vars

\* One caller of create_text_to_3d on a client built with any max_retries.
NextRetries ==
    \/ \E t \in callers : Call(t, "create_text_to_3d")
    \/ \E t \in callers : RateLimit(t)
    \/ \E t \in callers : RateLimitWake(t)
    \/ \E t \in callers : RateLimitStamp(t)
    \/ \E t \in callers : SendRequest(t)
    \/ \E t \in callers, r \in Responses : Receive(t, r)
    \/ \E t \in callers : BackoffWake(t)
    \/ Tick

SpecRetries == InitRetries /\ [][NextRetries]_vars

\* Two workers submit text-to-3d tasks; the remote answers 200, or 429 with
\* retry-after: 3.
ConcurrentOps == { "create_text_to_3d" }
ConcurrentResponses == { r \in Responses : r.code = 200 \/ r.retry_after = "3" }

NextConcurrent ==
    \/ \E t \in callers, o \in ConcurrentOps : Call(t, o)
    \/ \E t \in callers : RateLimit(t)
    \/ \E t \in callers : RateLimitWake(t)
    \/ \E t \in callers : RateLimitStamp(t)
    \/ \E t \in callers : SendRequest(t)
    \/ \E t \in callers, r \in ConcurrentResponses : Receive(t, r)
    \/ \E t \in callers : BackoffWake(t)
    \/ Tick

SpecConcurrent == InitConcurrent /\ [][NextConcurrent]_vars

\* ===================================================================
\* Text3DService
\* ===================================================================
\* TRUE when the repository holds a submission for this project, service and
\* spec hash that has not failed.
HasLiveEntry(project, service, spec_hash) ==
    \E i \in 1..Len(repository) :
        /\ repository[i].project = project
        /\ repository[i].service = service
        /\ repository[i].spec_hash = spec_hash
        /\ repository[i].status \notin { "FAILED", "EXPIRED" }

\* What BaseHttpClient.request gives the service for a POST: a task id the
\* remote API created, an empty id, or an error of the transport.
PostOutcomes == { "created", "empty", "error" }

\* Lines 68 and 108, "if not task_id": the id of the response is empty.
\* Variant: a service that takes any id.
EmptyTaskIdNever(task_id) == FALSE
EmptyTaskId(task_id) == task_id = 0

\* The POST of line 63 (submit_task) or lines 98-103 (refine_task), and lines
\* 65-70 / 105-110 on its response.
SendPost(kind, project, path, service, payload, outcome) ==
    /\ svc_pc = "idle"
    /\ svc_calls < MaxServiceCalls
    /\ svc_calls' = svc_calls + 1
    /\ posts' = Append(posts,
          [ path |-> path, project |-> project, service |-> service,
            spec_hash |-> ComputeSpecHash(payload),
            had_entry |-> HasLiveEntry(project, service, ComputeSpecHash(payload)) ])
    /\ remote_tasks' = IF outcome = "created" THEN remote_tasks + 1 ELSE remote_tasks
    /\ LET task_id == IF outcome = "created" THEN remote_tasks + 1 ELSE 0 IN
       /\ svc_call' = [ kind |-> kind, project |-> project, service |-> service,
                        payload |-> payload, task_id |-> task_id,
                        response |-> outcome ]
       /\ IF outcome = "error"
          THEN /\ svc_pc' = "idle"
               /\ svc_result' = [ kind |-> "TransportError" ]
          ELSE IF EmptyTaskId(task_id)
          THEN /\ svc_pc' = "idle"
               /\ svc_result' = [ kind |-> "ValueError" ]
          ELSE /\ svc_pc' = "record"
               /\ svc_result' = NoSubmission
    /\ UNCHANGED repository
    /\ UNCHANGED notService

\* Text3DService.submit_task, lines 45-70.
SubmitTask(project, prompt, enable_retexture, seed, outcome) ==
    SendPost("submit", project, "text-to-3d", "text3d",
             SubmitPayload(prompt, enable_retexture, seed), outcome)

\* Text3DService.refine_task, lines 98-110.
RefineTask(project, task_id, outcome) ==
    SendPost("refine", project, << "text-to-3d", task_id, "refine" >>,
             "text3d_refine", RefinePayload(task_id), outcome)

\* Lines 72-85 and 113-126: hash the payload, record the submission, return it.
RecordSubmission ==
    /\ svc_pc = "record"
    /\ LET submission == TaskSubmission(svc_call.task_id,
                                        ComputeSpecHash(svc_call.payload),
                                        svc_call.project, svc_call.service)
       IN  /\ repository' = Append(repository, submission)
           /\ svc_result' = [ kind |-> "submission", value |-> submission ]
    /\ svc_pc' = "idle"
    /\ UNCHANGED << svc_call, svc_calls, posts, remote_tasks >>
    /\ UNCHANGED notService

\* Lines 72-83 / 113-124 after the POST gave a task id: compute_spec_hash, the
\* TaskSubmission constructor or record_task_submission raises, or the process
\* stops; nothing catches it and nothing has been recorded.
RecordFailures == { "raised", "stopped" }
\* Variant: a service that records the submission on its way out.
OnRecordFailureKeep(repo, submission) == Append(repo, submission)
OnRecordFailure(repo, submission) == repo

RecordFails(e) ==
    /\ svc_pc = "record"
    /\ repository' = OnRecordFailure(repository,
                         TaskSubmission(svc_call.task_id,
                                        ComputeSpecHash(svc_call.payload),
                                        svc_call.project, svc_call.service))
    /\ svc_result' = [ kind |-> e ]
    /\ svc_pc' = "idle"
    /\ UNCHANGED << svc_call, svc_calls, posts, remote_tasks >>
    /\ UNCHANGED notService

\* The webhook of the remote API reports a task's progress: the repository
\* moves the recorded status along PENDING, IN_PROGRESS, terminal.
NextStatuses(st) ==
    CASE st = "PENDING" -> { "IN_PROGRESS", "SUCCEEDED", "FAILED", "EXPIRED" }
      [] st = "IN_PROGRESS" -> { "SUCCEEDED", "FAILED", "EXPIRED" }
      [] OTHER -> { }

WebhookUpdate(i, st) ==
    /\ i \in 1..Len(repository)
    /\ st \in NextStatuses(repository[i].status)
    /\ repository' = [repository EXCEPT ![i].status = st]
    /\ UNCHANGED << svc_pc, svc_call, svc_result, svc_calls, posts, remote_tasks >>
    /\ UNCHANGED notService

NextService ==
    \/ \E project \in Projects, prompt \in Prompts, enable_retexture \in BOOLEAN,
          seed \in Seeds, outcome \in PostOutcomes :
          SubmitTask(project, prompt, enable_retexture, seed, outcome)
    \/ \E project \in Projects, task_id \in 1..remote_tasks, outcome \in PostOutcomes :
          RefineTask(project, task_id, outcome)
    \/ RecordSubmission
    \/ \E e \in RecordFailures : RecordFails(e)
    \/ \E i \in 1..MaxServiceCalls, st \in TaskStatuses : WebhookUpdate(i, st)

SpecService == Init /\ [][NextService]_vars

\* ===================================================================
\* Manifest store: update by write-to-temp-then-rename, load, crash
\* ===================================================================
\* update: read the current manifest (or initialise it), apply the change,
\* and open the temporary file for the new document.
BeginUpdate(key) ==
    /\ writer.pc = "idle"
    /\ durable[key].revision < MaxRevisions
    /\ writer' = [ pc |-> "writing", key |-> key,
                   doc |-> Manifest(key, durable[key].revision + 1) ]
    /\ files' = [files EXCEPT ![TempPath(key)] = [ exists |-> TRUE, data |-> << >> ]]
    /\ UNCHANGED << durable, loaded >>
    /\ UNCHANGED notStore

\* One write() of the document's text into the temporary file.
WriteChunk ==
    /\ writer.pc = "writing"
    /\ LET p == TempPath(writer.key)
           n == Len(files[p].data)
       IN  /\ n < DocChunks
           /\ files' = [files EXCEPT ![p].data = Append(@, Serialize(writer.doc)[n + 1])]
    /\ UNCHANGED << writer, durable, loaded >>
    /\ UNCHANGED notStore

\* The whole text is in the temporary file: rename it over the manifest.
Rename ==
    /\ writer.pc = "writing"
    /\ LET p == TempPath(writer.key)
           q == ManifestPath(writer.key)
       IN  /\ Len(files[p].data) = DocChunks
           /\ files' = IF p = q THEN files
                       ELSE [files EXCEPT ![q] = files[p], ![p] = NoFile]
    /\ durable' = [durable EXCEPT ![writer.key] = writer.doc]
    /\ writer' = NoUpdate
    /\ UNCHANGED loaded
    /\ UNCHANGED notStore

\* The process stops at any point of an update; what is on disk stays.
Crash ==
    /\ writer.pc = "writing"
    /\ writer' = NoUpdate
    /\ UNCHANGED << files, durable, loaded >>
    /\ UNCHANGED notStore

\* load, by any reader at any time: NotFound, or the parsed document.
Load(key) ==
    /\ loaded' = [ key |-> key,
                   value |-> IF files[ManifestPath(key)].exists
                             THEN Parse(files[ManifestPath(key)].data)
                             ELSE NotFound,
                   prior |-> durable[key],
                   new |-> IF writer.pc = "writing" /\ writer.key = key
                           THEN writer.doc ELSE durable[key] ]
    /\ UNCHANGED << files, writer, durable >>
    /\ UNCHANGED notStore

NextStore ==
    \/ \E key \in AssetKeys : BeginUpdate(key)
    \/ WriteChunk
    \/ Rename
    \/ Crash
    \/ \E key \in AssetKeys : Load(key)

SpecStore == Init /\ [][NextStore]_vars

\* ===================================================================
\* Status polling: MeshyClient.poll_until_complete and animate.poll
\* ===================================================================
\* Lines 219-232 (animate.py line 41): the clock is read, and an unknown task
\* type is refused before any request.  A poll starts while the clock leaves
\* room for its deadline.
PollStart(c) ==
    /\ poll_pc = "idle"
    /\ now + c.max_wait + c.interval + MaxLatency <= MaxTime
    /\ poll_call' = c
    /\ poll_start' = now
    /\ poll_seen' = << >>
    /\ IF c.via = "poll_until_complete" /\ c.task_type \notin PollTaskTypes
       THEN /\ poll_pc' = "idle"
            /\ poll_result' = [ kind |-> "ValueError", status |-> "" ]
       ELSE /\ poll_pc' = "get"
            /\ poll_result' = NoPollResult
    /\ UNCHANGED now
    /\ UNCHANGED notPoll

\* One pass of the loop, lines 234-254 (animate.py lines 42-54): the get
\* method answers after d ticks with status st; the loop returns, raises, or
\* sleeps poll_interval and goes round again.
\* Variant: a loop that tests the deadline before it looks at the status.
PollPassDeadlineFirst(st, d) ==
    /\ poll_pc = "get"
    /\ now + d + poll_call.interval <= MaxTime
    /\ poll_seen' = Append(poll_seen, st)
    /\ LET elapsed == (now + d) - poll_start IN
       IF Deadline(elapsed, poll_call.max_wait)
       THEN /\ poll_result' = [ kind |-> "TimeoutError", status |-> st ]
            /\ poll_pc' = "idle"
            /\ now' = now + d
       ELSE IF PollDecision(st) = "return"
       THEN /\ poll_result' = [ kind |-> "result", status |-> st ]
            /\ poll_pc' = "idle"
            /\ now' = now + d
       ELSE IF PollDecision(st) = "RuntimeError"
       THEN /\ poll_result' = [ kind |-> "RuntimeError", status |-> st ]
            /\ poll_pc' = "idle"
            /\ now' = now + d
       ELSE /\ now' = now + d + poll_call.interval
            /\ UNCHANGED << poll_pc, poll_result >>
    /\ UNCHANGED << poll_call, poll_start >>
    /\ UNCHANGED notPoll
PollPass(st, d) ==
    /\ poll_pc = "get"
    /\ now + d + poll_call.interval <= MaxTime
    /\ poll_seen' = Append(poll_seen, st)
    /\ LET elapsed == (now + d) - poll_start IN
       IF PollDecision(st) = "return"
       THEN /\ poll_result' = [ kind |-> "result", status |-> st ]
            /\ poll_pc' = "idle"
            /\ now' = now + d
       ELSE IF PollDecision(st) = "RuntimeError"
       THEN /\ poll_result' = [ kind |-> "RuntimeError", status |-> st ]
            /\ poll_pc' = "idle"
            /\ now' = now + d
       ELSE IF Deadline(elapsed, poll_call.max_wait)
       THEN /\ poll_result' = [ kind |-> "TimeoutError", status |-> st ]
            /\ poll_pc' = "idle"
            /\ now' = now + d
       ELSE /\ now' = now + d + poll_call.interval
            /\ UNCHANGED << poll_pc, poll_result >>
    /\ UNCHANGED << poll_call, poll_start >>
    /\ UNCHANGED notPoll

\* The get method raises (a transport error): the loop lets it through.
PollGetRaises(d) ==
    /\ poll_pc = "get"
    /\ now + d <= MaxTime
    /\ now' = now + d
    /\ poll_result' = [ kind |-> "TransportError", status |-> "" ]
    /\ poll_pc' = "idle"
    /\ UNCHANGED << poll_call, poll_start, poll_seen >>
    /\ UNCHANGED notPoll

NextPoll ==
    \/ \E c \in PollCalls : PollStart(c)
    \/ \E st \in TaskStatuses, d \in 0..MaxLatency : PollPass(st, d)
    \/ \E d \in 0..MaxLatency : PollGetRaises(d)

SpecPoll == Init /\ [][NextPoll]_vars

\* The remote task never reaches a terminal status, and every get answers.
PendingStatuses == TaskStatuses \ TerminalStatuses
NextPollPending ==
    \/ \E c \in PollCalls : PollStart(c)
    \/ \E st \in PendingStatuses, d \in 0..MaxLatency : PollPass(st, d)

\* A running program takes its next step.
SpecPollPending ==
    Init /\ [][NextPollPending]_vars /\ WF_vars(NextPollPending)

\* ===================================================================
\* The pipeline orchestrator: generate, resume, batch_generate
\* ===================================================================
Stored == manifests[run.key]
StageEntries(m, stage) == { i \in DOMAIN m.task_graph : m.task_graph[i].stage = stage }

\* The entry a submission follows: the last one recorded.
PriorEntry(m) ==
    IF m.task_graph = << >> THEN [ stage |-> 0, status |-> "NOT_STARTED" ]
    ELSE [ stage |-> m.task_graph[Len(m.task_graph)].stage,
           status |-> m.task_graph[Len(m.task_graph)].status ]

\* The status a stage stands at: that of its latest entry.
StageStatus(m, stage) ==
    IF StageEntries(m, stage) = { } THEN "NOT_STARTED"
    ELSE m.task_graph[CHOOSE i \in StageEntries(m, stage) :
                         \A j \in StageEntries(m, stage) : j <= i].status

\* generate, up to createOrLoad: an invalid spec is refused before anything is
\* stored or sent; a valid one has its manifest created or loaded.  The asset
\* key stands for the pair of spec fingerprint and asset identifier, so a call
\* for a stored key carries the stored spec.
GenerateCall(key, valid, stages, wait) ==
    /\ run.pc = "idle"
    /\ manifests[key].exists => manifests[key].stages = stages
    /\ IF valid
       THEN /\ manifests' = [manifests EXCEPT
                               ![key] = Persist(@, CreateOrLoad(@, key, stages))]
            /\ run' = [NoRun EXCEPT !.pc = "plan", !.key = key, !.wait = wait,
                                    !.manifest = CreateOrLoad(manifests[key], key, stages)]
            /\ run_result' = NoRunResult
       ELSE /\ run_result' = [ kind |-> "InvalidSpec", key |-> key, task_id |-> 0,
                               manifest |-> NoManifest ]
            /\ UNCHANGED << manifests, run >>
    /\ UNCHANGED submissions
    /\ UNCHANGED notPipeline

Generate(key, valid, stages, wait) ==
    /\ batch.pc = "idle"
    /\ runs < MaxRuns
    /\ runs' = runs + 1
    /\ GenerateCall(key, valid, stages, wait)
    /\ UNCHANGED batch

\* resume: a fresh orchestrator takes up the stored manifest of an asset.
Resume(key) ==
    /\ batch.pc = "idle"
    /\ run.pc = "idle"
    /\ runs < MaxRuns
    /\ manifests[key].exists
    /\ runs' = runs + 1
    /\ run' = [NoRun EXCEPT !.pc = "plan", !.key = key, !.wait = TRUE,
                            !.resumed = TRUE, !.manifest = manifests[key]]
    /\ run_result' = NoRunResult
    /\ UNCHANGED << manifests, submissions, batch >>
    /\ UNCHANGED notPipeline

\* The orchestrator reads off the manifest what to do: submit a stage, poll
\* the entry that is open, or finish.
Plan ==
    /\ run.pc = "plan"
    /\ LET p == IF run.resumed THEN ResumePoint(Stored) ELSE GeneratePlan(Stored)
       IN run' =
            CASE p.do = "submit" -> [run EXCEPT !.pc = "submit", !.stage = p.stage]
              [] p.do = "poll" /\ run.wait ->
                    [run EXCEPT !.pc = "poll", !.stage = p.stage, !.entry = p.entry,
                                !.task_id = Stored.task_graph[p.entry].task_id]
              [] p.do = "poll" /\ ~run.wait ->
                    [run EXCEPT !.pc = "return", !.stage = p.stage, !.entry = p.entry,
                                !.task_id = Stored.task_graph[p.entry].task_id]
              [] p.do = "failed" ->
                    [run EXCEPT !.pc = "raise", !.stage = p.stage, !.entry = p.entry,
                                !.task_id = Stored.task_graph[p.entry].task_id,
                                !.error = "RemoteTaskFailed"]
              [] OTHER -> [run EXCEPT !.pc = "return", !.stage = p.stage]
    /\ UNCHANGED << manifests, run_result, runs, submissions, batch >>
    /\ UNCHANGED notPipeline

\* The stage is submitted through the transport: the remote API creates a task
\* and gives its id, or the submission fails.
Submit(ok) ==
    /\ run.pc = "submit"
    /\ IF ok
       THEN /\ submissions' =
                 Append(submissions,
                        [ key |-> run.key, stage |-> run.stage,
                          task_id |-> Len(submissions) + 1,
                          resumed |-> run.resumed,
                          had_entry |-> StageEntries(Stored, run.stage) # { },
                          last_stage |-> PriorEntry(Stored).stage,
                          last_status |-> PriorEntry(Stored).status,
                          prev_status |-> StageStatus(Stored, run.stage - 1) ])
            /\ run' = [run EXCEPT !.pc = "record", !.task_id = Len(submissions) + 1]
       ELSE /\ run' = [run EXCEPT !.pc = "record_error", !.error = "SubmissionFailed"]
            /\ UNCHANGED submissions
    /\ UNCHANGED << manifests, run_result, runs, batch >>
    /\ UNCHANGED notPipeline

\* The submitted task is recorded as a PENDING entry; a caller that does not
\* wait gets the manifest back now.
RecordStage ==
    /\ run.pc = "record"
    /\ manifests' = [manifests EXCEPT
                       ![run.key] = Persist(@, RecordTaskSubmission(@, run.task_id,
                                                                    run.stage))]
    /\ run' = [run EXCEPT !.pc = IF run.wait THEN "poll" ELSE "return",
                          !.entry = Len(Stored.task_graph) + 1,
                          !.polled = FALSE,
                          !.manifest = RecordTaskSubmission(Stored, run.task_id,
                                                            run.stage)]
    /\ UNCHANGED << run_result, runs, submissions, batch >>
    /\ UNCHANGED notPipeline

\* One status poll: the remote task is where it was or further on; the entry
\* takes the status.  SUCCEEDED goes on to the download, FAILED and EXPIRED
\* abort the pipeline.
PollStatus(st) ==
    /\ run.pc = "poll"
    /\ st \in { Stored.task_graph[run.entry].status }
              \cup NextStatuses(Stored.task_graph[run.entry].status)
    /\ manifests' = [manifests EXCEPT
                       ![run.key] = Persist(@, UpdateStatus(@, run.entry, st))]
    /\ run' = [run EXCEPT !.polled = TRUE,
                          !.manifest = UpdateStatus(Stored, run.entry, st),
                          !.pc = IF st = "SUCCEEDED" THEN "download"
                                 ELSE IF st \in FailedStatuses THEN "raise"
                                 ELSE "poll",
                          !.error = IF st \in FailedStatuses
                                    THEN "RemoteTaskFailed" ELSE ""]
    /\ UNCHANGED << run_result, runs, submissions, batch >>
    /\ UNCHANGED notPipeline

\* The deadline passes while the task is not terminal.
PollTimeout ==
    /\ run.pc = "poll"
    /\ run.polled
    /\ manifests' = [manifests EXCEPT
                       ![run.key] = Persist(@, OnPollTimeout(@, run.entry))]
    /\ run' = [run EXCEPT !.pc = "raise", !.error = "PollTimeout",
                          !.manifest = OnPollTimeout(Stored, run.entry)]
    /\ UNCHANGED << run_result, runs, submissions, batch >>
    /\ UNCHANGED notPipeline

\* The artifacts of a SUCCEEDED stage are downloaded and recorded, and the
\* pipeline goes on to its next stage; or the download fails.
Download(ok) ==
    /\ run.pc = "download"
    /\ IF ok
       THEN /\ manifests' = [manifests EXCEPT
                               ![run.key] = Persist(@, RecordArtifact(@, run.stage,
                                                                      run.task_id))]
            /\ run' = IF run.stage < Stored.stages
                      THEN [run EXCEPT !.pc = "submit", !.stage = @ + 1,
                                       !.entry = 0, !.task_id = 0, !.polled = FALSE,
                                       !.manifest = RecordArtifact(Stored, run.stage,
                                                                   run.task_id)]
                      ELSE [run EXCEPT !.pc = "return",
                                       !.manifest = RecordArtifact(Stored, run.stage,
                                                                   run.task_id)]
       ELSE /\ run' = [run EXCEPT !.pc = "record_error", !.error = "DownloadFailed"]
            /\ UNCHANGED manifests
    /\ UNCHANGED << run_result, runs, submissions, batch >>
    /\ UNCHANGED notPipeline

\* A failed submission or download is written into the history.
RecordError ==
    /\ run.pc = "record_error"
    /\ LET old_status == IF run.error = "SubmissionFailed"
                         THEN "NOT_STARTED" ELSE "SUCCEEDED"
       IN /\ manifests' = [manifests EXCEPT
                             ![run.key] = Persist(@, RecordFailure(@, old_status,
                                                                   run.task_id))]
          /\ run' = [run EXCEPT !.pc = "raise",
                                !.manifest = RecordFailure(Stored, old_status,
                                                           run.task_id)]
    /\ UNCHANGED << run_result, runs, submissions, batch >>
    /\ UNCHANGED notPipeline

\* generate / resume returns the manifest or raises its error.
Finish ==
    /\ run.pc \in { "return", "raise" }
    /\ run_result' = [ kind |-> IF run.pc = "return" THEN "manifest" ELSE run.error,
                       key |-> run.key, task_id |-> run.task_id,
                       manifest |-> IF run.pc = "return" THEN run.manifest
                                    ELSE NoManifest ]
    /\ run' = NoRun
    /\ UNCHANGED << manifests, runs, submissions, batch >>
    /\ UNCHANGED notPipeline

\* The process dies in the middle of a run; what is persisted stays.
Kill ==
    /\ batch.pc = "idle"
    /\ run.pc # "idle"
    /\ run' = NoRun
    /\ run_result' = [ kind |-> "killed", key |-> run.key, task_id |-> run.task_id,
                       manifest |-> NoManifest ]
    /\ UNCHANGED << manifests, runs, submissions, batch >>
    /\ UNCHANGED notPipeline

\* batch_generate(specs): one generate per spec, one after the other, each
\* waited for.  Of the input only its length is fixed at the call; each spec
\* is drawn when the loop comes to it.
BatchGenerate(size) ==
    /\ batch.pc = "idle"
    /\ run.pc = "idle"
    /\ runs = 0
    /\ batch' = [NoBatch EXCEPT !.pc = "next", !.size = size, !.next = 1]
    /\ UNCHANGED << manifests, run, run_result, runs, submissions >>
    /\ UNCHANGED notPipeline

\* The loop is through the input.
BatchEnd ==
    /\ batch.pc = "next"
    /\ batch.next > batch.size
    /\ batch' = [batch EXCEPT !.pc = "done"]
    /\ UNCHANGED << manifests, run, run_result, runs, submissions >>
    /\ UNCHANGED notPipeline

\* The loop takes the next spec, a single-stage generation.
BatchNext(spec) ==
    /\ batch.pc = "next"
    /\ batch.next <= batch.size
    /\ batch' = [batch EXCEPT !.pc = "item", !.specs = Append(@, spec)]
    /\ GenerateCall(spec.key, spec.valid, 1, TRUE)
    /\ UNCHANGED runs

\* The generate of the item is over: its manifest is collected or its error
\* caught.
BatchCollect ==
    /\ batch.pc = "item"
    /\ run.pc = "idle"
    /\ batch' = OnItemDone(batch, run_result)
    /\ UNCHANGED << manifests, run, run_result, runs, submissions >>
    /\ UNCHANGED notPipeline

NextPipeline ==
    \/ \E key \in PipelineKeys, valid \in BOOLEAN, stages \in 1..MaxStages,
          wait \in BOOLEAN : Generate(key, valid, stages, wait)
    \/ \E key \in PipelineKeys : Resume(key)
    \/ Plan
    \/ \E ok \in BOOLEAN : Submit(ok)
    \/ RecordStage
    \/ \E st \in TaskStatuses : PollStatus(st)
    \/ PollTimeout
    \/ \E ok \in BOOLEAN : Download(ok)
    \/ RecordError
    \/ Finish
    \/ Kill
    \/ \E size \in 1..MaxBatch : BatchGenerate(size)
    \/ \E spec \in BatchSpecs : BatchNext(spec)
    \/ BatchEnd
    \/ BatchCollect

SpecPipeline == Init /\ [][NextPipeline]_vars

\* ===================================================================
\* animate.apply: create, then return the task id or poll
\* ===================================================================
\* apply is called, lines 57-82: the request is built.
Apply(wait, animation_id) ==
    /\ apply_pc = "idle"
    /\ apply_calls < MaxApply
    /\ apply_calls' = apply_calls + 1
    /\ apply_pc' = "create"
    /\ apply_call' = [ wait |-> wait,
                       request |-> AnimationRequest(RiggedTaskId, animation_id),
                       posts |-> 0, task_id |-> 0 ]
    /\ apply_result' = NoApplyResult
    /\ UNCHANGED << anim_tasks, now, pollVars >>
    /\ UNCHANGED notApply

\* create, lines 22-30 and 84: one POST animations; its error goes to the
\* caller of apply, its "result" is the task id.  Lines 86-89 on the id.
ApplyCreate(outcome) ==
    /\ apply_pc = "create"
    /\ anim_tasks' = IF outcome = "created" THEN anim_tasks + 1 ELSE anim_tasks
    /\ apply_call' = [apply_call EXCEPT
                        !.posts = @ + 1,
                        !.task_id = IF outcome = "created" THEN anim_tasks + 1 ELSE 0]
    /\ IF outcome = "error"
       THEN /\ apply_pc' = "idle"
            /\ apply_result' = [ kind |-> "TransportError", task_id |-> 0,
                                 status |-> "" ]
            /\ UNCHANGED pollVars
       ELSE IF AfterCreate(apply_call.wait) = "return"
       THEN /\ apply_pc' = "idle"
            /\ apply_result' = [ kind |-> "task_id", task_id |-> apply_call'.task_id,
                                 status |-> "" ]
            /\ UNCHANGED pollVars
       ELSE /\ apply_pc' = "poll"
            /\ apply_result' = NoApplyResult
            /\ poll_pc' = "idle"
            /\ poll_call' = NoPoll
            /\ poll_start' = 0
            /\ poll_seen' = << >>
            /\ poll_result' = NoPollResult
    /\ UNCHANGED << apply_calls, now >>
    /\ UNCHANGED notApply

\* Line 89: poll(task_id) is entered with its default interval and timeout.
ApplyPollStart ==
    /\ apply_pc = "poll"
    /\ poll_call = NoPoll
    /\ PollStart(DefaultPoll)

\* The poll is running.
ApplyPollStep ==
    /\ apply_pc = "poll"
    /\ \/ \E st \in TaskStatuses, d \in 0..MaxLatency : PollPass(st, d)
       \/ \E d \in 0..MaxLatency : PollGetRaises(d)

\* Line 89: what poll returned or raised is what apply returns or raises.
ApplyPollDone ==
    /\ apply_pc = "poll"
    /\ poll_pc = "idle"
    /\ poll_result # NoPollResult
    /\ apply_pc' = "idle"
    /\ apply_result' = [ kind |-> poll_result.kind, task_id |-> apply_call.task_id,
                         status |-> poll_result.status ]
    /\ UNCHANGED << apply_call, apply_calls, anim_tasks, now, pollVars >>
    /\ UNCHANGED notApply

NextApply ==
    \/ \E wait \in BOOLEAN, animation_id \in AnimationIds : Apply(wait, animation_id)
    \/ \E outcome \in CreateOutcomes : ApplyCreate(outcome)
    \/ ApplyPollStart
    \/ ApplyPollStep
    \/ ApplyPollDone

\* A running program takes its next step.
SpecApply == Init /\ [][NextApply]_vars /\ WF_vars(NextApply)

\* ===================================================================
\* MeshyClient.download_file (lines 256-265)
\* ===================================================================
\* download_file(url, output_path) is called.
DownloadFile ==
    /\ dl_pc = "idle"
    /\ dl_calls < MaxDownloads
    /\ dl_calls' = dl_calls + 1
    /\ dl_pc' = "get"
    /\ dl_call' = NoDownload
    /\ dl_result' = NoDownloadResult
    /\ UNCHANGED << dl_file, dl_dir >>
    /\ UNCHANGED notDownload

\* Lines 258-259: httpx.get(url), not through _request, answers with r and
\* the content, or raises (code 0); raise_for_status raises on 4xx and 5xx.
DownloadGet(r, content) ==
    /\ dl_pc = "get"
    /\ LET e == IF r.code = 0 THEN "TimeoutException"
                ELSE IF RaisesForStatus(r) THEN "HTTPStatusError"
                ELSE ""
       IN /\ dl_call' = [ requests |-> dl_call.requests + 1, code |-> r.code,
                          content |-> IF e = "" THEN content ELSE << >>,
                          raised |-> e ]
          /\ IF e = ""
             THEN dl_pc' = "write" /\ UNCHANGED dl_result
             ELSE IF DownloadRetries(e) /\ dl_call.requests + 1 < StopAfterAttempt
             THEN dl_pc' = "get" /\ UNCHANGED dl_result
             ELSE /\ dl_pc' = "idle"
                  /\ dl_result' = [ kind |-> e, size |-> 0 ]
    /\ UNCHANGED << dl_calls, dl_file, dl_dir >>
    /\ UNCHANGED notDownload

\* Lines 261-265: the directory is made, the file opened for writing and the
\* content written; the length of the content is returned.
DownloadWrite(outcome, n) ==
    /\ dl_pc = "write"
    /\ n \in 0..Len(dl_call.content)
    /\ outcome = "written" => n = Len(dl_call.content)
    /\ outcome = "write_error" => n < Len(dl_call.content)
    /\ outcome = "makedirs_error" => n = 0
    /\ dl_dir' = IF outcome = "makedirs_error" THEN dl_dir ELSE TRUE
    /\ dl_file' = IF outcome = "makedirs_error" THEN dl_file
                  ELSE [ exists |-> TRUE, data |-> Prefix(dl_call.content, n) ]
    /\ dl_call' = [dl_call EXCEPT !.raised = IF outcome = "written" THEN ""
                                             ELSE "OSError"]
    /\ dl_result' = IF outcome = "written"
                    THEN [ kind |-> "size", size |-> ContentLength(dl_call.content) ]
                    ELSE [ kind |-> "OSError", size |-> 0 ]
    /\ dl_pc' = "idle"
    /\ UNCHANGED dl_calls
    /\ UNCHANGED notDownload

\* What the file server answers: as the API does, or with a redirect.
DownloadResponses == Responses \cup { [code |-> 302, retry_after |-> "none"] }

NextDownload ==
    \/ DownloadFile
    \/ \E r \in DownloadResponses, content \in Contents : DownloadGet(r, content)
    \/ \E outcome \in WriteOutcomes, n \in 0..MaxContent : DownloadWrite(outcome, n)

SpecDownload == Init /\ [][NextDownload]_vars

\* ===================================================================
\* The spec canonicalizer: fingerprints of payloads
\* ===================================================================
\* seq with its elements at i and i + 1 exchanged.
Swap(seq, i) == [seq EXCEPT ![i] = seq[i + 1], ![i + 1] = seq[i]]

\* The payload with member m of the top-level mapping replaced by value v.
WithValue(p, m, v) == [p EXCEPT !.items[m].v = v]

\* fingerprint(payload).
ComputeHash ==
    /\ fp_op = "none"
    /\ fp_hash' = SpecFingerprint(fp_in)
    /\ fp_op' = "hash"
    /\ UNCHANGED fp_in
    /\ UNCHANGED notHash

\* The caller builds the same payload with two neighbouring keys exchanged,
\* at the top level (m = 0) or inside the mapping at member m, and hashes it.
ReorderKeys(m, i) ==
    /\ fp_op # "none"
    /\ IF m = 0
       THEN /\ i \in 1..(Len(fp_in.items) - 1)
            /\ fp_in' = [fp_in EXCEPT !.items = Swap(@, i)]
       ELSE /\ m \in DOMAIN fp_in.items
            /\ fp_in.items[m].v.t = "obj"
            /\ i \in 1..(Len(fp_in.items[m].v.items) - 1)
            /\ fp_in' = WithValue(fp_in, m,
                                  Obj(Swap(fp_in.items[m].v.items, i)))
    /\ fp_hash' = SpecFingerprint(fp_in')
    /\ fp_op' = "reorder"
    /\ UNCHANGED notHash

\* The caller changes one value, at the top level or one level down, and
\* hashes the payload.
ChangeValue(m, i, v) ==
    /\ fp_op # "none"
    /\ m \in DOMAIN fp_in.items
    /\ IF i = 0
       THEN /\ fp_in.items[m].v.t = "str"
            /\ v # fp_in.items[m].v
            /\ fp_in' = WithValue(fp_in, m, v)
       ELSE /\ fp_in.items[m].v.t \in { "arr", "obj" }
            /\ i \in DOMAIN fp_in.items[m].v.items
            /\ IF fp_in.items[m].v.t = "arr"
               THEN /\ v # fp_in.items[m].v.items[i]
                    /\ fp_in' = [fp_in EXCEPT !.items[m].v.items[i] = v]
               ELSE /\ v # fp_in.items[m].v.items[i].v
                    /\ fp_in' = [fp_in EXCEPT !.items[m].v.items[i].v = v]
    /\ fp_hash' = SpecFingerprint(fp_in')
    /\ fp_op' = "change"
    /\ UNCHANGED notHash

\* The caller exchanges two neighbouring, different elements of the sequence
\* at member m, and hashes the payload.
SwapElements(m, i) ==
    /\ fp_op # "none"
    /\ m \in DOMAIN fp_in.items
    /\ fp_in.items[m].v.t = "arr"
    /\ i \in 1..(Len(fp_in.items[m].v.items) - 1)
    /\ fp_in.items[m].v.items[i] # fp_in.items[m].v.items[i + 1]
    /\ fp_in' = WithValue(fp_in, m, Arr(Swap(fp_in.items[m].v.items, i)))
    /\ fp_hash' = SpecFingerprint(fp_in')
    /\ fp_op' = "swap"
    /\ UNCHANGED notHash

NextHash ==
    \/ ComputeHash
    \/ \E m \in 0..Cardinality(PayloadKeys), i \in 1..Cardinality(PayloadKeys) :
          ReorderKeys(m, i)
    \/ \E m \in 1..Cardinality(PayloadKeys), i \in 0..MaxSeq, v \in Scalars :
          ChangeValue(m, i, v)
    \/ \E m \in 1..Cardinality(PayloadKeys), i \in 1..MaxSeq : SwapElements(m, i)

SpecHash == InitHash /\ [][NextHash]_vars

\* ===================================================================
\* The asset identifier of a spec
\* ===================================================================
\* The orchestrator derives the identifier of the spec, on every call anew.
DeriveAssetId ==
    /\ Len(aid_out) < MaxIdCalls
    /\ aid_out' = Append(aid_out, GenerateAssetId(aid_spec))
    /\ UNCHANGED aid_spec
    /\ UNCHANGED notAssetId

NextAssetId == DeriveAssetId

SpecAssetId == InitAssetId /\ [][NextAssetId]_vars

\* ===================================================================
\* MeshyClient.__init__ (lines 38-51) and the requests of a client object
\* ===================================================================
\* MeshyClient(api_key) with MESHY_API_KEY at env: lines 39-42 take the key
\* and raise without one; lines 46-47 create the two httpx clients.
Construct(api_key, env) ==
    /\ ~client_obj.exists
    /\ ctor_calls < MaxCtorCalls
    /\ ctor_calls' = ctor_calls + 1
    /\ ctor_call' = [ api_key |-> api_key, env |-> env ]
    /\ IF Falsy(KeyOf(api_key, env))
       THEN /\ ctor_result' = "ValueError"
            /\ UNCHANGED << client_obj, http_clients >>
       ELSE /\ ctor_result' = "client"
            /\ client_obj' = [ exists |-> TRUE, api_key |-> KeyOf(api_key, env) ]
            /\ http_clients' = http_clients + 2
    /\ UNCHANGED wire
    /\ UNCHANGED notCtor

\* A request to the API: every operation of the client passes
\* headers=self._headers() to self.client.request (lines 76, 142, 154, ...).
ApiRequest ==
    /\ client_obj.exists
    /\ Len(wire) < MaxWire
    /\ wire' = Append(wire, [ kind |-> "api", auth |-> Bearer(client_obj.api_key) ])
    /\ UNCHANGED << ctor_call, ctor_result, ctor_calls, client_obj, http_clients >>
    /\ UNCHANGED notCtor

\* download_file, line 258: httpx.get(url), with no headers.
DownloadRequest ==
    /\ client_obj.exists
    /\ Len(wire) < MaxWire
    /\ wire' = Append(wire, [ kind |-> "download", auth |-> "" ])
    /\ UNCHANGED << ctor_call, ctor_result, ctor_calls, client_obj, http_clients >>
    /\ UNCHANGED notCtor

\* close(), lines 267-270; the object is used no more.
Close ==
    /\ client_obj.exists
    /\ client_obj' = NoClient
    /\ UNCHANGED << ctor_call, ctor_result, ctor_calls, http_clients, wire >>
    /\ UNCHANGED notCtor

NextCtor ==
    \/ \E api_key \in ApiKeyArgs, env \in EnvValues : Construct(api_key, env)
    \/ ApiRequest
    \/ DownloadRequest
    \/ Close

SpecCtor == Init /\ [][NextCtor]_vars

\* ===================================================================
\* Properties of the transport
\* ===================================================================
Returned(t) == pc[t] = "idle" /\ result[t] # "none"
ThroughRequest(t) == t \in callers /\ UsesRequest(op[t]) /\ Len(hist[t]) > 0
LastAttempt(t) == hist[t][Len(hist[t])]
RequestLog == SelectSeq(sent, LAMBDA s : s.via = "_request")
Transient(r) == r.code = 0 \/ r.code = 429 \/ r.code >= 500

\* C1: with one caller, any two requests sent through _request, however many
\* lie between them, are min_request_interval apart for each step from the
\* first to the second: N sequential requests take at least
\* (N - 1) * min_request_interval.
SequentialSpacing ==
    callers = {1} =>
        \A i, j \in 1..Len(RequestLog) :
            i < j => RequestLog[j].at - RequestLog[i].at
                        >= (j - i) * MinRequestInterval

\* C1 witness: the second call of the caller came right after the first, the
\* limiter slept, and its request left exactly one interval after the last.
SequentialSpacingWitness ==
    /\ callers = {1}
    /\ calls[1] = 2
    /\ pc[1] = "inflight"
    /\ Len(hist[1]) = 1
    /\ Len(RequestLog) >= 2
    /\ RequestLog[Len(RequestLog)].at - RequestLog[Len(RequestLog) - 1].at
          = MinRequestInterval

\* C2: with several callers on one client, every two consecutive requests are
\* still at least min_request_interval apart.
ConcurrentSpacing ==
    \A i \in 1..(Len(sent) - 1) :
        sent[i + 1].at - sent[i].at >= MinRequestInterval

\* C3: a call whose every response was 429 or 5xx made exactly
\* StopAfterAttempt requests and ended in a RetryError; no call makes more;
\* every wait between attempts is within [WaitMin, WaitMax], no shorter than
\* the wait before it, and the next attempt is not sent before it has passed.
BackoffBounds ==
    \A t \in callers :
        ThroughRequest(t) =>
            /\ Len(hist[t]) <= StopAfterAttempt
            /\ (Returned(t) /\ \A i \in 1..Len(hist[t]) :
                                  hist[t][i].resp.code \in { 429, 500 })
                  => /\ Len(hist[t]) = StopAfterAttempt
                     /\ result[t] = "RetryError"
            /\ \A i \in 1..(Len(hist[t]) - 1) :
                  /\ hist[t][i].wait >= WaitMin
                  /\ hist[t][i].wait <= WaitMax
                  /\ hist[t][i + 1].at - hist[t][i].at >= hist[t][i].wait
                  /\ i > 1 => hist[t][i].wait >= hist[t][i - 1].wait

\* C3 witness: three attempts, answered 429, 500, 429, ended in a RetryError.
BackoffBoundsWitness ==
    /\ Returned(1)
    /\ ThroughRequest(1)
    /\ Len(hist[1]) = StopAfterAttempt
    /\ hist[1][1].resp.code = 429
    /\ hist[1][2].resp.code = 500
    /\ hist[1][3].resp.code = 429
    /\ result[1] = "RetryError"

\* C4: a request answered with a 4xx other than 429 ends the call at once:
\* one request was sent and the caller gets the request-failed error.
ClientErrorNotRetried ==
    \A t \in callers :
        (ThroughRequest(t) /\ hist[t][1].resp.code = 404)
            => /\ Len(hist[t]) = 1
               /\ pc[t] = "idle"
               /\ result[t] = "HTTPStatusError"

\* C5: after a 429 whose retry-after parses as a number the wait before the
\* next attempt is that number, and a 2xx on the second attempt makes the call
\* return on attempt 2.
RetryAfterHonoured ==
    \A t \in callers :
        (/\ ThroughRequest(t)
         /\ hist[t][1].resp.code = 429
         /\ ParsesAsFloat(hist[t][1].resp.retry_after)
         /\ Len(hist[t]) >= 2)
            => /\ hist[t][1].wait = FloatTicks(hist[t][1].resp.retry_after)
               /\ hist[t][2].resp.code = 200
                     => (Returned(t) /\ result[t] = "response" /\ Len(hist[t]) = 2)

\* C6: a call through _request whose failed attempts were all transient
\* (429, 5xx, timeout) gives its caller the 2xx response of the first attempt
\* that got one, and otherwise, only after StopAfterAttempt attempts, a
\* RetryError around what the last attempt raised; the transient error itself
\* never reaches the caller.
TransientErrorsStayInside ==
    \A t \in callers :
        (/\ ThroughRequest(t)
         /\ Returned(t)
         /\ \A i \in 1..Len(hist[t]) :
               hist[t][i].resp.code = 200 \/ Transient(hist[t][i].resp))
            => /\ result[t] \in { "response", "RetryError" }
               /\ result[t] = "response" <=> LastAttempt(t).resp.code = 200
               /\ \A i \in 1..(Len(hist[t]) - 1) : hist[t][i].resp.code # 200
               /\ result[t] = "RetryError"
                     => /\ Len(hist[t]) = StopAfterAttempt
                        /\ cause[t] = LastAttempt(t).raised
                        /\ cause[t] \in { "RateLimitError", "HTTPStatusError",
                                          "TimeoutException" }

\* C6 witness: a timeout, then a 500, then a 200 that the caller receives.
TransientErrorsStayInsideWitness ==
    /\ Returned(1)
    /\ ThroughRequest(1)
    /\ Len(hist[1]) = 3
    /\ hist[1][1].resp.code = 0
    /\ hist[1][2].resp.code = 500
    /\ hist[1][3].resp.code = 200
    /\ result[1] = "response"

\* C7: every request the client sends, whatever the operation, went through
\* _request (the limiter and the retry policy), so any two consecutive
\* requests of one caller are at least min_request_interval apart.
EveryRequestLimited ==
    callers = {1} =>
        /\ \A i \in 1..Len(sent) : sent[i].via = "_request"
        /\ \A i \in 1..(Len(sent) - 1) :
              sent[i + 1].at - sent[i].at >= MinRequestInterval

\* C8: whatever the operation, a call whose last response was a 429 reports
\* RateLimitError, directly or as the cause inside a RetryError.
RateLimitKind ==
    \A t \in callers :
        (Returned(t) /\ Len(hist[t]) > 0 /\ LastAttempt(t).resp.code = 429)
            => \/ result[t] = "RateLimitError"
               \/ (result[t] = "RetryError" /\ cause[t] = "RateLimitError")

\* ===================================================================
\* Properties of the service
\* ===================================================================
\* C9: no submission is POSTed for a project, stage and spec hash while the
\* repository already holds a submission for them that is SUCCEEDED or not
\* yet terminal.
NoResubmission ==
    \A i \in 1..Len(posts) : ~posts[i].had_entry

\* ===================================================================
\* Properties of the manifest store
\* ===================================================================
\* C10: at every point of an update, a crash included, the manifest file
\* holds the whole text of the manifest last committed, and every load
\* returned the whole prior manifest or the whole new one, never a corrupt
\* or partial document.
AtomicPersistence ==
    /\ \A k \in AssetKeys :
          IF files[ManifestPath(k)].exists
          THEN Parse(files[ManifestPath(k)].data) = durable[k]
          ELSE durable[k] = NotFound
    /\ loaded.value # Corrupt
    /\ loaded.value \in { loaded.prior, loaded.new }

\* C10 witness: a load during the second update of an asset, after a part of
\* the new text was written, returned the first revision, and the update
\* then stopped before its rename.
AtomicPersistenceWitness ==
    /\ loaded.key = "barrel-001"
    /\ loaded.value = Manifest("barrel-001", 1)
    /\ loaded.new = Manifest("barrel-001", 2)
    /\ writer.pc = "idle"
    /\ durable["barrel-001"] = Manifest("barrel-001", 1)
    /\ files[TempPath("barrel-001")].exists
    /\ Len(files[TempPath("barrel-001")].data) = 1

\* ===================================================================
\* Properties of status polling
\* ===================================================================
LastSeen == poll_seen[Len(poll_seen)]

\* C13: a poll returns a result only when the status it was given is
\* SUCCEEDED; a FAILED or EXPIRED status makes it raise and is the last status
\* it asks for; a PENDING or IN_PROGRESS status never makes it return a result.
PollReturnsOnSuccessOnly ==
    /\ poll_result.kind = "result" =>
          /\ poll_result.status = "SUCCEEDED"
          /\ Len(poll_seen) > 0
          /\ LastSeen = "SUCCEEDED"
    /\ \A i \in 1..Len(poll_seen) :
          /\ poll_seen[i] \in TerminalStatuses =>
                i = Len(poll_seen) /\ poll_pc = "idle"
          /\ poll_seen[i] \in FailedStatuses =>
                poll_result.kind = "RuntimeError"
          /\ (i = Len(poll_seen) /\ poll_seen[i] \in PendingStatuses) =>
                poll_result.kind # "result"

\* An EXPIRED status after a pass that slept ended the poll with an error.
PollReturnsOnSuccessOnlyWitness ==
    /\ poll_pc = "idle"
    /\ Len(poll_seen) >= 2
    /\ LastSeen = "EXPIRED"
    /\ poll_result.kind = "RuntimeError"

\* C14: while every status is PENDING or IN_PROGRESS, a running poll ends
\* with a timeout error, and when it does more than max_wait has elapsed
\* since it started.
PollTimesOut ==
    /\ [](poll_result.kind = "TimeoutError" =>
             now - poll_start > poll_call.max_wait)
    /\ (poll_pc = "get") ~> (poll_result.kind = "TimeoutError")

\* A poll timed out after it had slept at least once.
PollTimesOutWitness ==
    /\ poll_result.kind = "TimeoutError"
    /\ Len(poll_seen) >= 2
    /\ poll_call.max_wait > 0

\* ===================================================================
\* Properties of the pipeline orchestrator
\* ===================================================================
\* The asset ids of the specs whose generate gave a manifest, in input order.
RECURSIVE Successes(_, _, _)
Successes(specs, outcomes, i) ==
    IF i > Len(outcomes) THEN << >>
    ELSE (IF outcomes[i] = "manifest" THEN << specs[i].key >> ELSE << >>)
         \o Successes(specs, outcomes, i + 1)

\* C11: batch_generate lets no error out and goes through every input spec
\* whatever fails; what it returns is the specs that were generated
\* successfully, in input order, each with a SUCCEEDED task in its manifest.
BatchIsolation ==
    /\ batch.pc # "raised"
    /\ Len(batch.outcomes) <= Len(batch.specs)
    /\ batch.returned = Successes(batch.specs, batch.outcomes, 1)
    /\ \A i \in 1..Len(batch.returned) :
          StageStatus(manifests[batch.returned[i]], 1) = "SUCCEEDED"
    /\ batch.pc = "done" =>
          /\ Len(batch.specs) = batch.size
          /\ Len(batch.outcomes) = batch.size

\* Three specs, the second failing at submission: the first and the third
\* are returned.
BatchIsolationWitness ==
    /\ batch.pc = "done"
    /\ batch.size = 3
    /\ batch.outcomes = << "manifest", "SubmissionFailed", "manifest" >>
    /\ Len(batch.returned) = 2

\* The history entry that matches a terminal error.
FailureEntry(h, e, task_id) ==
    CASE e = "SubmissionFailed" ->
            h.old_status = "NOT_STARTED" /\ h.new_status = "FAILED"
      [] e = "RemoteTaskFailed" ->
            h.new_status \in FailedStatuses /\ h.task_id = task_id
      [] e = "DownloadFailed" ->
            h.old_status = "SUCCEEDED" /\ h.new_status = "FAILED"
            /\ h.task_id = task_id
      [] OTHER -> FALSE
FailureRecorded(m, e, task_id) ==
    \E j \in DOMAIN m.history : FailureEntry(m.history[j], e, task_id)

\* C12: when generate is about to raise a terminal error, and when its caller
\* or the batch loop has it, the persisted history of the asset holds the
\* failure entry that matches it.
ErrorsRecordedFirst ==
    /\ (run.pc = "raise" /\ run.error \in TerminalErrors) =>
          FailureRecorded(Stored, run.error, run.task_id)
    /\ run_result.kind \in TerminalErrors =>
          FailureRecorded(manifests[run_result.key], run_result.kind,
                          run_result.task_id)
    /\ \A i \in 1..Len(batch.outcomes) :
          batch.outcomes[i] \in TerminalErrors =>
             \E j \in DOMAIN manifests[batch.specs[i].key].history :
                manifests[batch.specs[i].key].history[j].new_status
                   \in FailedStatuses

\* A batch dropped an item whose download had failed.
ErrorsRecordedFirstWitness ==
    /\ batch.pc = "done"
    /\ \E i \in 1..Len(batch.outcomes) : batch.outcomes[i] = "DownloadFailed"

LastEntry(m) == m.task_graph[Len(m.task_graph)]

\* C15: the step that raises the poll timeout writes nothing; after generate
\* raised it, the last task entry of the manifest is the polled task, still
\* PENDING or IN_PROGRESS, and a resume would poll that same task.
TimeoutKeepsTask ==
    /\ [][(run.pc = "poll" /\ run'.error = "PollTimeout") =>
             manifests' = manifests]_vars
    /\ [](run_result.kind = "PollTimeout" =>
             /\ manifests[run_result.key].task_graph # << >>
             /\ LastEntry(manifests[run_result.key]).status \in PendingStatuses
             /\ LastEntry(manifests[run_result.key]).task_id = run_result.task_id
             /\ ResumePoint(manifests[run_result.key]).do = "poll"
             /\ ResumePoint(manifests[run_result.key]).entry
                   = Len(manifests[run_result.key].task_graph))

\* generate raised the timeout on a task that was IN_PROGRESS.
TimeoutKeepsTaskWitness ==
    /\ run_result.kind = "PollTimeout"
    /\ LastEntry(manifests[run_result.key]).status = "IN_PROGRESS"

IsPrefix(a, b) == Len(a) <= Len(b) /\ SubSeq(b, 1, Len(a)) = a

\* C20: a store mutation leaves the history it found as a prefix of the new
\* one and the entries it found in place; a status change of an entry appends
\* one history entry with the old and the new status; the task graph grows by
\* one entry, that of the task just submitted, in the step that records a
\* submission, and in no other.
AppendOnly ==
    [][\A k \in AssetKeys :
          /\ IsPrefix(manifests[k].history, manifests'[k].history)
          /\ Len(manifests'[k].task_graph) >= Len(manifests[k].task_graph)
          /\ \A i \in DOMAIN manifests[k].task_graph :
                /\ manifests'[k].task_graph[i].task_id = manifests[k].task_graph[i].task_id
                /\ manifests'[k].task_graph[i].stage = manifests[k].task_graph[i].stage
                /\ manifests'[k].task_graph[i].status # manifests[k].task_graph[i].status =>
                      manifests'[k].history =
                         Append(manifests[k].history,
                                [ old_status |-> manifests[k].task_graph[i].status,
                                  new_status |-> manifests'[k].task_graph[i].status,
                                  source |-> "orchestrator",
                                  task_id |-> manifests[k].task_graph[i].task_id ])
          /\ Len(manifests'[k].task_graph) # Len(manifests[k].task_graph) <=>
                (run.pc = "record" /\ run'.pc \in { "poll", "return" } /\ run.key = k)
          /\ Len(manifests'[k].task_graph) # Len(manifests[k].task_graph) =>
                /\ Len(manifests'[k].task_graph) = Len(manifests[k].task_graph) + 1
                /\ LastEntry(manifests'[k]).task_id = submissions[Len(submissions)].task_id
                /\ LastEntry(manifests'[k]).stage = submissions[Len(submissions)].stage
                /\ Len(manifests'[k].history) = Len(manifests[k].history) + 1]_vars

\* A manifest with two entries and the history of their transitions.
AppendOnlyWitness ==
    \E k \in AssetKeys :
       /\ Len(manifests[k].task_graph) = 2
       /\ Len(manifests[k].history) >= 4
       /\ manifests[k].task_graph[2].status = "IN_PROGRESS"

\* C21: an artifact record exists only for a task whose entry is SUCCEEDED and
\* whose download completed: each record belongs to a SUCCEEDED entry of its
\* stage, a task whose download failed has none, no task has two, and a
\* waited run that returns after its download has exactly one for its task.
ArtifactsOf(m, task_id) ==
    { a \in DOMAIN m.artifacts : m.artifacts[a].task_id = task_id }
DownloadFailedFor(m, task_id) ==
    \E h \in DOMAIN m.history :
        m.history[h] = StatusHistoryEntry("SUCCEEDED", "FAILED", "orchestrator", task_id)
NoWaitRunning == apply_pc # "idle" /\ ~apply_call.wait
NoWaitSubmitsOnce ==
    /\ [](NoWaitRunning => apply_pc = "create" /\ apply_call.posts = 0
                                /\ poll_pc = "idle")
    /\ [](apply_result.kind = "task_id"
            => /\ ~apply_call.wait
               /\ apply_call.posts = 1
               /\ apply_result.task_id = apply_call.task_id
               /\ apply_result.status = "")
    /\ []((apply_pc = "idle" /\ apply_calls > 0 /\ ~apply_call.wait)
            => apply_call.posts = 1
               /\ apply_result.kind \in { "task_id", "TransportError" })
    /\ [][NoWaitRunning => UNCHANGED << pollVars, now >>]_vars
    /\ (NoWaitRunning ~> (apply_pc = "idle" /\ apply_result.kind # "none"))
NoWaitSubmitsOnceWitness ==
    /\ apply_pc = "idle"
    /\ ~apply_call.wait
    /\ apply_result.kind = "task_id"
    /\ apply_result.task_id = 2
    /\ poll_result.kind = "result"

\* C23: when generate or resume returns a manifest, the store holds that very
\* manifest for the asset: all through a call the manifest the orchestrator
\* holds is the stored one, and what the caller was given is what a load gives.
ReturnedIsPersisted ==
    /\ run.pc # "idle" => run.manifest = manifests[run.key]
    /\ run_result.kind = "manifest"
          => /\ run_result.manifest.exists
             /\ run_result.manifest.asset_id = run_result.key
             /\ manifests[run_result.key] = run_result.manifest
ReturnedIsPersistedWitness ==
    /\ run_result.kind = "manifest"
    /\ Len(run_result.manifest.artifacts) = MaxStages
    /\ Len(manifests[run_result.key].history) > 2 * MaxStages

\* ===================================================================
\* Properties of Text3DService: what a call records
\* ===================================================================
ServiceOf(kind) == IF kind = "submit" THEN "text3d" ELSE "text3d_refine"

EmptyIdRaises ==
    /\ []((svc_calls > 0 /\ svc_call.response = "empty")
            => svc_pc = "idle" /\ svc_result.kind = "ValueError")
    /\ [](svc_result.kind = "ValueError" => svc_call.response = "empty")
    /\ [](\A i \in DOMAIN repository : repository[i].task_id # 0)
    /\ [][(svc_calls' # svc_calls /\ svc_call'.response = "empty")
            => repository' = repository /\ remote_tasks' = remote_tasks]_vars
EmptyIdRaisesWitness ==
    /\ svc_result.kind = "ValueError"
    /\ svc_call.kind = "refine"
    /\ Len(repository) = 1
    /\ Len(posts) = 2

\* ===================================================================
\* Properties of download_file
\* ===================================================================
\* C26: a download_file call sends one request, whether it fails or not; the
\* caller gets the error as it was raised; a returned size is the number of
\* bytes of the response, all of them written to the destination.
DownloadSendsOnce ==
    /\ dl_call.requests <= 1
    /\ (dl_pc = "idle" /\ dl_calls > 0) => dl_call.requests = 1
    /\ dl_pc = "write" => dl_call.requests = 1 /\ ~RaisesForStatus(dl_call)
    /\ dl_result.kind \notin { "none", "size" }
          => /\ dl_pc = "idle"
             /\ dl_result.kind = dl_call.raised
             /\ dl_result.kind = "HTTPStatusError" <=> RaisesForStatus(dl_call)
             /\ dl_result.kind = "TimeoutException" <=> dl_call.code = 0
    /\ dl_result.kind = "size"
          => /\ dl_file.exists
             /\ dl_file.data = dl_call.content
             /\ dl_result.size = Len(dl_file.data)
             /\ dl_call.code # 0 /\ ~RaisesForStatus(dl_call)
DownloadSendsOnceWitness ==
    /\ dl_calls = 2
    /\ dl_result.kind = "HTTPStatusError"
    /\ dl_call.requests = 1
    /\ dl_file.exists
    /\ Len(dl_file.data) = MaxContent

\* ===================================================================
\* Properties of the spec canonicalizer
\* ===================================================================
\* Two values are the same keys and values up to key order.
RECURSIVE SameUpToKeyOrder(_, _)
SameUpToKeyOrder(a, b) ==
    /\ a.t = b.t
    /\ CASE a.t = "str" -> a.s = b.s
         [] a.t = "arr" ->
              /\ Len(a.items) = Len(b.items)
              /\ \A i \in DOMAIN a.items : SameUpToKeyOrder(a.items[i], b.items[i])
         [] a.t = "obj" ->
              /\ { a.items[i].k : i \in DOMAIN a.items }
                    = { b.items[j].k : j \in DOMAIN b.items }
              /\ \A i \in DOMAIN a.items, j \in DOMAIN b.items :
                    a.items[i].k = b.items[j].k
                      => SameUpToKeyOrder(a.items[i].v, b.items[j].v)

\* The fingerprint of every payload of the model.
Fingerprints == [ p \in Payloads |-> SpecFingerprint(p) ]

UnknownTypeCall ==
    /\ poll_call.via = "poll_until_complete"
    /\ poll_call.task_type \notin { "text-to-3d", "text-to-texture", "image-to-3d",
                                     "rigging", "animation", "retexture" }

\* C29: poll_until_complete with an unknown task type raises ValueError at
\* once: no status was asked for, no time has passed since the call, and the
\* loop was never entered; ValueError is raised for no other call.
UnknownTypeRaisesFirst ==
    /\ [](UnknownTypeCall
            => /\ poll_pc = "idle"
               /\ poll_result.kind = "ValueError"
               /\ poll_seen = << >>
               /\ now = poll_start)
    /\ [](poll_result.kind = "ValueError" => UnknownTypeCall)
    /\ [][UnknownTypeCall' /\ poll_call' # poll_call => now' = now]_vars
UnknownTypeRaisesFirstWitness ==
    /\ UnknownTypeCall
    /\ poll_result.kind = "ValueError"
    /\ now > MinRequestInterval

\* ===================================================================
\* Properties of the constructor
\* ===================================================================
\* C30 as stated: no request is ever sent without a bearer token.
NoRequestWithoutToken ==
    \A i \in DOMAIN wire : wire[i].auth \notin { "", Bearer("") }

\* C30: with no api_key argument and no MESHY_API_KEY value the constructor
\* raises ValueError before an HTTP client is created, and for no other
\* input; a client object has a non-empty key, the argument before the
\* environment; no request leaves before a client exists, and every request
\* to the API carries the bearer token of a non-empty key.  The GET of
\* download_file carries no token.
KeyBeforeClient ==
    /\ [](ctor_result = "ValueError"
            <=> (ctor_calls > 0 /\ ctor_call.api_key \in { "none", "" }
                                /\ ctor_call.env \in { "unset", "" }))
    /\ [][(ctor_calls' # ctor_calls /\ ctor_result' = "ValueError")
            => /\ http_clients' = http_clients
               /\ ~client_obj'.exists
               /\ wire' = wire]_vars
    /\ [](client_obj.exists
            => /\ client_obj.api_key \in { "msy-arg", "msy-env" }
               /\ ctor_call.api_key = "msy-arg" => client_obj.api_key = "msy-arg"
               /\ ctor_call.api_key # "msy-arg" => client_obj.api_key = "msy-env"
               /\ http_clients > 0)
    /\ [](http_clients = 0 => wire = << >>)
    /\ [](\A i \in DOMAIN wire :
             /\ wire[i].kind = "api"
                   => wire[i].auth \in { "Bearer msy-arg", "Bearer msy-env" }
             /\ wire[i].kind = "download" => wire[i].auth = "")
KeyBeforeClientWitness ==
    /\ ctor_result = "ValueError"
    /\ ctor_calls = MaxCtorCalls
    /\ ctor_call.api_key = ""
    /\ ctor_call.env = ""
    /\ http_clients = 2
    /\ Len(wire) = 2
    /\ wire[1].kind = "api"
    /\ wire[2].kind = "download"

\* ===================================================================
\* More properties of the transport
\* ===================================================================
\* C31: an attempt of _request answered 429 with no retry-after header, or
\* with one that is no number, raised RateLimitError with the plain message
\* and nothing else; below the attempt limit the call goes on to the next
\* attempt after wait_exponential's wait for that attempt, and at the limit
\* the caller gets the RetryError around the RateLimitError.
UnparsedHeaderStillRateLimit ==
    \A t \in callers :
        ThroughRequest(t) =>
            \A i \in 1..Len(hist[t]) :
                (/\ hist[t][i].resp.code = 429
                 /\ ~ParsesAsFloat(hist[t][i].resp.retry_after))
                    => /\ hist[t][i].raised = "RateLimitError"
                       /\ hist[t][i].msg = "Rate limit exceeded"
                       /\ i < StopAfterAttempt
                             => /\ i < Len(hist[t]) \/ pc[t] # "idle"
                                /\ hist[t][i].wait = WaitExponential(i)
                                /\ i < Len(hist[t])
                                      => hist[t][i + 1].at - hist[t][i].at
                                            >= WaitExponential(i)
                       /\ i = StopAfterAttempt
                             => /\ Returned(t)
                                /\ result[t] = "RetryError"
                                /\ cause[t] = "RateLimitError"

\* C31 witness: a 429 without the header, then a 429 with retry-after: soon,
\* and the third attempt is in flight after the waits of 2 s and 2 s.
UnparsedHeaderStillRateLimitWitness ==
    /\ ThroughRequest(1)
    /\ Len(hist[1]) = 3
    /\ pc[1] = "inflight"
    /\ hist[1][1].resp = [code |-> 429, retry_after |-> "none"]
    /\ hist[1][2].resp = [code |-> 429, retry_after |-> "soon"]
    /\ hist[1][1].wait = WaitExponential(1)
    /\ hist[1][2].wait = WaitExponential(2)

\* ===================================================================
\* More properties of the service
\* ===================================================================
SameStage(a, b) ==
    /\ a.project = b.project
    /\ a.service = b.service
    /\ a.spec_hash = b.spec_hash

\* C32: service calls run one after the other here, so each call's record
\* has landed before the next call starts; the repository then never holds a
\* second task for a project, service and spec hash whose earlier task has
\* not failed.
NoDuplicateAfterWrite ==
    \A i, j \in 1..Len(repository) :
        (i < j /\ SameStage(repository[i], repository[j]))
            => repository[i].status \in { "FAILED", "EXPIRED" }

\* C33: whatever max_retries the client was constructed with, a call through
\* _request never sends more than StopAfterAttempt requests, does not end on
\* a retried error before it has sent that many, and a call whose every
\* attempt raised a retried error has sent exactly StopAfterAttempt requests.
AttemptsIgnoreMaxRetries ==
    \A t \in callers :
        ThroughRequest(t) =>
            /\ Len(hist[t]) <= StopAfterAttempt
            /\ (Returned(t) /\ Retryable(LastAttempt(t).raised))
                  => /\ Len(hist[t]) = StopAfterAttempt
                     /\ result[t] = "RetryError"
            /\ (Returned(t) /\ Len(hist[t]) < StopAfterAttempt)
                  => result[t] = "response"

\* C33 witness: a client built with max_retries = 1 has sent three requests,
\* each answered 500, and gives its caller the RetryError.
AttemptsIgnoreMaxRetriesWitness ==
    /\ max_retries = 1
    /\ ThroughRequest(1)
    /\ Returned(1)
    /\ Len(hist[1]) = StopAfterAttempt
    /\ \A i \in 1..StopAfterAttempt : hist[1][i].resp.code = 500
    /\ result[1] = "RetryError"

\* C34: with one caller, every attempt of _request, the first and each retry,
\* was stamped by _rate_limit as it was sent: from the moment an attempt is in
\* flight until the next _rate_limit, last_request_time is the send time of
\* that attempt; and an attempt follows the attempt before it by at least
\* min_request_interval.
RetriesRateLimited ==
    callers = {1} =>
        \A t \in callers :
            (ThroughRequest(t) /\ pc[t] \in { "inflight", "backoff", "idle" })
                => /\ last_request_time = LastAttempt(t).at
                   /\ \A i \in 1..(Len(hist[t]) - 1) :
                         hist[t][i + 1].at - hist[t][i].at >= MinRequestInterval

\* C34 witness: the third attempt of a call is in flight, after two failed
\* attempts, and last_request_time is the time it was sent.
RetriesRateLimitedWitness ==
    /\ callers = {1}
    /\ ThroughRequest(1)
    /\ pc[1] = "inflight"
    /\ Len(hist[1]) = 3
    /\ hist[1][1].raised = "HTTPStatusError"
    /\ hist[1][2].raised = "TimeoutException"
    /\ last_request_time = hist[1][3].at
    /\ last_request_time > hist[1][2].at

\* C35: with one caller and a clock that never runs backwards,
\* last_request_time never decreases; it changes only at the end of a
\* _rate_limit call, and there it becomes the time on the clock at which that
\* call has finished waiting (the end of its sleep when it slept).
StampFollowsClock ==
    /\ [][callers = {1} => last_request_time' >= last_request_time]_vars
    /\ [][last_request_time' # last_request_time
            => \E t \in callers : pc[t] = "rl_stamp" /\ pc'[t] = "send"]_vars
    /\ [][\A t \in callers :
            (callers = {1} /\ pc[t] = "rl_stamp" /\ pc'[t] = "send")
                => /\ last_request_time' = now
                   /\ now' = now]_vars
    /\ [](\A t \in callers :
            (callers = {1} /\ pc[t] = "rl_stamp")
                => now >= last_request_time + MinRequestInterval)

\* C35 witness: the second call slept in _rate_limit, and the stamp is the
\* time its sleep ended, later than the stamp of the first call.
StampFollowsClockWitness ==
    /\ callers = {1}
    /\ calls[1] = 2
    /\ pc[1] = "send"
    /\ wake[1] = now
    /\ last_request_time = now
    /\ last_request_time > MinRequestInterval
    /\ Len(hist[1]) = 0

\* ===================================================================
\* More properties of status polling
\* ===================================================================
\* The poll at hand has left its loop.
PollEnded == poll_pc = "idle" /\ poll_result.kind \notin { "none", "ValueError" }

\* C36: a poll that entered its loop ends only on the answer to a status
\* request, whatever max_wait is; a poll that was given SUCCEEDED returns it
\* and one given FAILED or EXPIRED raises RuntimeError, however much more than
\* max_wait has elapsed; TimeoutError is raised only on a status that is not
\* terminal.
StatusBeforeDeadline ==
    /\ [][(poll_pc = "get" /\ poll_pc' = "idle")
            => \/ Len(poll_seen') = Len(poll_seen) + 1
               \/ poll_result'.kind = "TransportError"]_vars
    /\ [](PollEnded /\ poll_result.kind # "TransportError"
            => /\ Len(poll_seen) >= 1
               /\ LastSeen = "SUCCEEDED" => poll_result.kind = "result"
               /\ LastSeen \in FailedStatuses => poll_result.kind = "RuntimeError"
               /\ poll_result.kind = "TimeoutError"
                     => /\ LastSeen \in PendingStatuses
                        /\ now - poll_start > poll_call.max_wait)

\* C36 witness: a poll with max_wait 0 was answered SUCCEEDED after the
\* deadline had passed, and returned the result.
StatusBeforeDeadlineWitness ==
    /\ PollEnded
    /\ poll_call.max_wait = 0
    /\ Len(poll_seen) = 1
    /\ LastSeen = "SUCCEEDED"
    /\ now - poll_start > poll_call.max_wait
    /\ poll_result.kind = "result"

\* ===================================================================
\* More properties of download_file
\* ===================================================================
\* C37: a download_file call whose response is not 2xx ends with the
\* HTTPStatusError at that response; the directory and the file at the
\* destination change only in the step that follows a 2xx response, so a
\* failed download creates no directory and creates or overwrites no file.
FailedDownloadLeavesDisk ==
    /\ [](dl_pc = "write" => dl_call.code \in 200..299)
    /\ []((dl_calls > 0 /\ dl_call.requests = 1 /\ dl_call.code >= 100
                        /\ dl_call.code \notin 200..299)
            => dl_pc = "idle" /\ dl_result.kind = "HTTPStatusError")
    /\ [][dl_pc # "write" => UNCHANGED << dl_file, dl_dir >>]_vars
    /\ [](dl_file.exists => dl_dir)

\* C37 witness: the first download was answered 302; there is neither a
\* directory nor a file.
FailedDownloadLeavesDiskWitness ==
    /\ dl_calls = 1
    /\ dl_pc = "idle"
    /\ dl_call.code = 302
    /\ dl_result.kind = "HTTPStatusError"
    /\ ~dl_dir
    /\ ~dl_file.exists

\* The repository holds an entry for the remote task.
Recorded(task_id) == \E i \in 1..Len(repository) : repository[i].task_id = task_id

\* The remote task was created by a call that has ended and left no entry.
Orphan(task_id) ==
    /\ task_id \in 1..remote_tasks
    /\ ~Recorded(task_id)
    /\ ~(svc_pc = "record" /\ svc_call.task_id = task_id)

\* C38: an entry is recorded only for a task the remote API had created in an
\* earlier step; a call that fails or stops after its POST gave a task id
\* leaves that task without an entry, and it never gets one; a later POST
\* that finds no entry for its stage is sent although such a task may exist.
CreatedBeforeRecorded ==
    /\ [][\A id \in 1..(remote_tasks + 1) :
            (~Recorded(id) /\ Recorded(id)')
                => /\ id <= remote_tasks
                   /\ remote_tasks' = remote_tasks
                   /\ svc_pc = "record" /\ svc_call.task_id = id]_vars
    /\ [](svc_result.kind \in RecordFailures
            => /\ svc_call.task_id \in 1..remote_tasks
               /\ \A i \in 1..Len(repository) :
                     repository[i].task_id # svc_call.task_id)
    /\ [][\A id \in 1..remote_tasks : Orphan(id) => Orphan(id)']_vars
    /\ [](\A k \in 1..Len(posts) :
            posts[k].had_entry => \E i \in 1..Len(repository) :
                                     SameStage(repository[i], posts[k]))

\* C38 witness: the first submit_task stopped after its POST; the second,
\* for the same project and payload, found no entry, was sent, and its task
\* is the only one recorded of the two the remote API created.
CreatedBeforeRecordedWitness ==
    /\ svc_pc = "idle"
    /\ remote_tasks = 2
    /\ Len(posts) = 2
    /\ SameStage(posts[1], posts[2])
    /\ ~posts[2].had_entry
    /\ Orphan(1)
    /\ Len(repository) = 1
    /\ repository[1].task_id = 2

====
